---- MODULE Spec2Model ----
(***************************************************************************)
(* Model of the icon pipeline of watchcow/internal/fpkgen: magic-byte      *)
(* format detection (detectFormat) and the ICO container decoder           *)
(* (decodeICO, decodeICOImage, decodeICOBMP and the per-depth row          *)
(* decoders), the resolver of file:// references (resolveFilePath), and    *)
(* the installed-apps registry of the Generator (generator.go).            *)
(* Byte buffers are sequences of 0..255; a Go slice expression            *)
(* that leaves its buffer is the outcome "panic".  Go's int is 64 bits     *)
(* wide (the build target is linux/amd64).  A uint32 is kept exactly as    *)
(* two 16-bit limbs [hi, lo], because TLC's integers are 32-bit signed;   *)
(* int32 values and buffer lengths are plain integers.                     *)
(***************************************************************************)
EXTENDS Integers, Sequences, FiniteSets, TLC

VARIABLES
    data,           \* the input byte buffer handed to detectFormat / decodeICO
    pc,             \* position of the decodeICO call
    formats,        \* results of the detectFormat calls made on data so far
    header,         \* decodeICO: the parsed icoHeader
    i,              \* decodeICO: loop index over the directory
    parsed,         \* decodeICO: entries returned by parseICOEntry so far
    bestEntry,      \* decodeICO: <<>> for nil, <<entry>> otherwise
    bestResolution, \* decodeICO: resolution of bestEntry
    imageData,      \* the slice of data handed to decodeICOImage
    bmp,            \* decodeICOBMP: locals (width, height, bitCount, ...)
    y,              \* per-depth decoder: row loop index
    pix,            \* pixels set with img.SetRGBA: <<x, y>> -> <<R, G, B, A>>
    result,         \* what the decodeICO call returned
    fileURL,        \* resolveFilePath: the file:// reference, as characters
    basePath,       \* resolveFilePath: the base directory, as characters
    resolved,       \* what the resolveFilePath call returned
    buffer,         \* the caller's byte buffer as it is now (data: as passed)
    pixBacking,     \* the array behind the returned image's Pix slice
    installed,      \* Generator.installed: container id -> *AppConfig
    mu,             \* Generator.mu: the readers and the writer holding it
    threads,        \* per goroutine: position, call, return value, held map
    completed,      \* the registry as the completed Mark* calls leave it
    ncalls          \* calls made on the Generator so far

pathVars == <<fileURL, basePath, resolved>>

genVars == <<installed, mu, threads, completed, ncalls>>

vars == <<data, pc, formats, header, i, parsed, bestEntry, bestResolution,
          imageData, bmp, y, pix, result, fileURL, basePath, resolved,
          buffer, pixBacking, installed, mu, threads, completed, ncalls>>

----------------------------------------------------------------------------
(* Bounds of the model *)

MaxEntries == 3     \* directory entries of a generated container
MaxCalls == 2       \* detectFormat calls made on one buffer
MaxTail == 3        \* arbitrary bytes appended after a magic sequence
MaxPixRows == 2     \* stored pixel rows present in a generated DIB
MaxPathLen == 4     \* characters of a generated path
MaxOps == 4         \* calls made on one Generator

----------------------------------------------------------------------------
(* Go primitives *)

Pow2(n) == 2 ^ n

\* Go's integer division truncates toward zero
GoDiv(a, b) == IF a >= 0 THEN a \div b ELSE -((-a) \div b)

\* d[k] with Go's 0-based index
At(d, k) == d[k + 1]

\* d[lo:hi] is legal iff 0 <= lo <= hi <= len(d)
SliceOK(d, lo, hi) == 0 <= lo /\ lo <= hi /\ hi <= Len(d)

Slice(d, lo, hi) == SubSeq(d, lo + 1, hi)

\* bytes.HasPrefix
HasPrefix(d, p) == Len(d) >= Len(p) /\ SubSeq(d, 1, Len(p)) = p

\* binary.LittleEndian.Uint16 / Uint32 of the slice starting at offset k
Uint16LE(d, k) == At(d, k) + 256 * At(d, k + 1)

Uint32LE(d, k) == [hi |-> Uint16LE(d, k + 2), lo |-> Uint16LE(d, k)]

\* binary.BigEndian.Uint32 of a value below 2^31 (PNG IHDR width and height)
Uint32BE(d, k) ==
    16777216 * At(d, k) + 65536 * At(d, k + 1) + 256 * At(d, k + 2) + At(d, k + 3)

\* the uint32 of a non-negative integer
U32Of(n) == [hi |-> n \div 65536, lo |-> n % 65536]

MaxU32 == [hi |-> 65535, lo |-> 65535]

U32IsZero(u) == u.hi = 0 /\ u.lo = 0

\* int(u) for a uint32 below 2^31
U32ToInt(u) == u.hi * 65536 + u.lo

\* u + v in uint32, wrapping at 2^32
U32Add(u, v) ==
    [hi |-> (u.hi + v.hi + ((u.lo + v.lo) \div 65536)) % 65536,
     lo |-> (u.lo + v.lo) % 65536]

\* u <= v in uint32
U32Leq(u, v) == u.hi < v.hi \/ (u.hi = v.hi /\ u.lo <= v.lo)

\* int(u) < n and int(u) <= n for an integer n >= 0
\* mutant: the comparison is off by one (u < n - 1)
U32LtInt_offByOne(u, n) == U32Leq(u, U32Of(n - 1)) /\ u # U32Of(n - 1)

U32LtInt(u, n) == U32Leq(u, U32Of(n)) /\ u # U32Of(n)

U32LeqInt(u, n) == U32Leq(u, U32Of(n))

\* int(u) + int(v) > n in 64-bit int arithmetic (no wrap), n >= 0
SumExceeds(u, v, n) ==
    LET lo == u.lo + v.lo
        hi == u.hi + v.hi + (lo \div 65536)
    IN hi > n \div 65536 \/ (hi = n \div 65536 /\ lo % 65536 > n % 65536)

\* int(int32(u)) for a uint32 u
Int32(u) == IF u.hi >= 32768 THEN (u.hi - 65536) * 65536 + u.lo
                             ELSE u.hi * 65536 + u.lo

----------------------------------------------------------------------------
(* Format detector *)

FormatUnknown == "Unknown"
FormatPNG == "PNG"
FormatJPEG == "JPEG"
FormatWebP == "WebP"
FormatBMP == "BMP"
FormatICO == "ICO"

magicPNG == <<137, 80, 78, 71, 13, 10, 26, 10>>
magicJPEG == <<255, 216, 255>>
magicBMP == <<66, 77>>
magicICO == <<0, 0, 1, 0>>
magicRIFF == <<82, 73, 70, 70>>
magicWEBP == <<87, 69, 66, 80>>

\* mutant: the length guard of the WebP test is lost, data[8:12] is taken
\* from any RIFF buffer
detectFormat_noLenGuard(d) ==
    IF Len(d) < 2 THEN FormatUnknown
    ELSE IF Len(d) >= 8 /\ HasPrefix(d, magicPNG) THEN FormatPNG
    ELSE IF Len(d) >= 3 /\ HasPrefix(d, magicJPEG) THEN FormatJPEG
    ELSE IF HasPrefix(d, magicRIFF) /\ ~SliceOK(d, 8, 12) THEN "panic"
    ELSE IF HasPrefix(d, magicRIFF) /\ Slice(d, 8, 12) = magicWEBP
        THEN FormatWebP
    ELSE IF Len(d) >= 4 /\ HasPrefix(d, magicICO) THEN FormatICO
    ELSE IF HasPrefix(d, magicBMP) THEN FormatBMP
    ELSE FormatUnknown

\* mutant: the WEBP tag is looked for right after the RIFF tag
detectFormat_webpAt4(d) ==
    IF Len(d) < 2 THEN FormatUnknown
    ELSE IF Len(d) >= 8 /\ HasPrefix(d, magicPNG) THEN FormatPNG
    ELSE IF Len(d) >= 3 /\ HasPrefix(d, magicJPEG) THEN FormatJPEG
    ELSE IF Len(d) >= 12 /\ HasPrefix(d, magicRIFF) /\ Slice(d, 4, 8) = magicWEBP
        THEN FormatWebP
    ELSE IF Len(d) >= 4 /\ HasPrefix(d, magicICO) THEN FormatICO
    ELSE IF HasPrefix(d, magicBMP) THEN FormatBMP
    ELSE FormatUnknown

\* mutant: the WebP test checks only the RIFF tag, not the WEBP tag
detectFormat_riffOnly(d) ==
    IF Len(d) < 2 THEN FormatUnknown
    ELSE IF Len(d) >= 8 /\ HasPrefix(d, magicPNG) THEN FormatPNG
    ELSE IF Len(d) >= 3 /\ HasPrefix(d, magicJPEG) THEN FormatJPEG
    ELSE IF Len(d) >= 12 /\ HasPrefix(d, magicRIFF) THEN FormatWebP
    ELSE IF Len(d) >= 4 /\ HasPrefix(d, magicICO) THEN FormatICO
    ELSE IF HasPrefix(d, magicBMP) THEN FormatBMP
    ELSE FormatUnknown

\* the five magic tests of detectFormat, each as its if-condition
isPNG(d) == Len(d) >= 8 /\ HasPrefix(d, magicPNG)

isJPEG(d) == Len(d) >= 3 /\ HasPrefix(d, magicJPEG)

\* mutant: the RIFF tag is not tested, only the WEBP tag at offset 8
isWebP_noRIFF(d) == Len(d) >= 12 /\ Slice(d, 8, 12) = magicWEBP

isWebP(d) == Len(d) >= 12 /\ HasPrefix(d, magicRIFF) /\ Slice(d, 8, 12) = magicWEBP

\* mutant: the type bytes of the ICO magic are not compared
isICO_anyType(d) == Len(d) >= 4 /\ HasPrefix(d, <<0, 0>>)

isICO(d) == Len(d) >= 4 /\ HasPrefix(d, magicICO)

isBMP(d) == HasPrefix(d, magicBMP)

\* detectFormat: the first matching magic test decides; the slice data[8:12]
\* is evaluated only after the length test (Go's && short-circuits)
detectFormat(d) ==
    IF Len(d) < 2 THEN FormatUnknown
    ELSE IF isPNG(d) THEN FormatPNG
    ELSE IF isJPEG(d) THEN FormatJPEG
    ELSE IF Len(d) >= 12 /\ HasPrefix(d, magicRIFF) /\ ~SliceOK(d, 8, 12)
        THEN "panic"
    ELSE IF isWebP(d) THEN FormatWebP
    ELSE IF isICO(d) THEN FormatICO
    ELSE IF isBMP(d) THEN FormatBMP
    ELSE FormatUnknown

----------------------------------------------------------------------------
(* ICO directory entries *)

\* mutant: the 0 => 256 substitution is lost
getActualWidth_raw(e) == e.Width

getActualWidth(e) == IF e.Width = 0 THEN 256 ELSE e.Width

getActualHeight(e) == IF e.Height = 0 THEN 256 ELSE e.Height

resolution(e) == getActualWidth(e) * getActualHeight(e)

\* parseICOEntry on the 16-byte slot that starts at offset k of d
parseICOEntry(d, k) ==
    [Width |-> At(d, k),
     Height |-> At(d, k + 1),
     ColorCount |-> At(d, k + 2),
     Reserved |-> At(d, k + 3),
     Planes |-> Uint16LE(d, k + 4),
     BitCount |-> Uint16LE(d, k + 6),
     Size |-> Uint32LE(d, k + 8),
     Offset |-> Uint32LE(d, k + 12)]

----------------------------------------------------------------------------
(* Results and images *)

NoRect == [minX |-> 0, minY |-> 0, maxX |-> 0, maxY |-> 0]

\* image.Rect: the corners are put in canonical order
Rect(x0, y0, x1, y1) ==
    [minX |-> IF x0 <= x1 THEN x0 ELSE x1,
     minY |-> IF y0 <= y1 THEN y0 ELSE y1,
     maxX |-> IF x0 <= x1 THEN x1 ELSE x0,
     maxY |-> IF y0 <= y1 THEN y1 ELSE y0]

Dx(r) == r.maxX - r.minX

Dy(r) == r.maxY - r.minY

InRect(px, py, r) == r.minX <= px /\ px < r.maxX /\ r.minY <= py /\ py < r.maxY

NoResult == [kind |-> "none", err |-> "", rect |-> NoRect]

ReturnError(msg) == [kind |-> "error", err |-> msg, rect |-> NoRect]

ReturnImage(r) == [kind |-> "image", err |-> "", rect |-> r]

Panic(msg) == [kind |-> "panic", err |-> msg, rect |-> NoRect]

NoBMP == [width |-> 0, height |-> 0, bitCount |-> 0, pixelOffset |-> 0,
          palette |-> <<>>, pixels |-> <<>>, rect |-> NoRect]

NoHeader == [Reserved |-> 0, Type |-> 0, Count |-> 0]

----------------------------------------------------------------------------
(* The standard PNG decoder behind image.Decode.  A stream is the 8-byte   *)
(* signature, the IHDR chunk (length, tag, big-endian width and height)    *)
(* and the IEND trailer; a stream without its trailer fails to decode.     *)

pngIHDR == <<73, 72, 68, 82>>
pngIEND == <<73, 69, 78, 68, 174, 66, 96, 130>>
pngStreamLen == 32

pngDecodable(d) ==
    /\ Len(d) >= pngStreamLen
    /\ HasPrefix(d, magicPNG)
    /\ Slice(d, 12, 16) = pngIHDR
    /\ Slice(d, Len(d) - 8, Len(d)) = pngIEND
    /\ At(d, 16) < 128 /\ Uint32BE(d, 16) > 0
    /\ At(d, 20) < 128 /\ Uint32BE(d, 20) > 0

pngBounds(d) == Rect(0, 0, Uint32BE(d, 16), Uint32BE(d, 20))

----------------------------------------------------------------------------
(* decodeICO *)

\* mutant: the type test also accepts 2 (CUR)
headerError_acceptCUR(d) ==
    IF Len(d) < 6 THEN "too short for header"
    ELSE IF Uint16LE(d, 0) # 0 THEN "reserved field must be 0"
    ELSE IF Uint16LE(d, 2) \notin {1, 2} THEN "type must be 1 for ICO"
    ELSE IF Uint16LE(d, 4) = 0 THEN "no images in file"
    ELSE IF Len(d) < 6 + Uint16LE(d, 4) * 16 THEN "too short for directory entries"
    ELSE ""

\* mutant: the directory size check is off by one slot
headerError_dirOffByOne(d) ==
    IF Len(d) < 6 THEN "too short for header"
    ELSE IF Uint16LE(d, 0) # 0 THEN "reserved field must be 0"
    ELSE IF Uint16LE(d, 2) # 1 THEN "type must be 1 for ICO"
    ELSE IF Uint16LE(d, 4) = 0 THEN "no images in file"
    ELSE IF Len(d) < 6 + (Uint16LE(d, 4) - 1) * 16
        THEN "too short for directory entries"
    ELSE ""

\* the validated header of the buffer, or the error decodeICO returns for it
headerError(d) ==
    IF Len(d) < 6 THEN "too short for header"
    ELSE IF Uint16LE(d, 0) # 0 THEN "reserved field must be 0"
    ELSE IF Uint16LE(d, 2) # 1 THEN "type must be 1 for ICO"
    ELSE IF Uint16LE(d, 4) = 0 THEN "no images in file"
    ELSE IF Len(d) < 6 + Uint16LE(d, 4) * 16 THEN "too short for directory entries"
    ELSE ""

\* decodeICO up to the directory loop: length, header and directory size
decodeICOHeader ==
    /\ pc = "ready"
    /\ IF headerError(data) # ""
          THEN /\ result' = ReturnError(headerError(data))
               /\ pc' = "done"
               /\ UNCHANGED header
          ELSE /\ header' = [Reserved |-> Uint16LE(data, 0),
                             Type |-> Uint16LE(data, 2),
                             Count |-> Uint16LE(data, 4)]
               /\ pc' = "loop"
               /\ UNCHANGED result
    /\ UNCHANGED <<genVars, pathVars, buffer, data, formats, i, parsed, bestEntry, bestResolution,
                   imageData, bmp, y, pix>>
    /\ UNCHANGED pixBacking

\* mutant: the bounds test of the validation is lost
skipEntry_noBounds(e, d) ==
    \/ U32IsZero(e.Offset)
    \/ U32IsZero(e.Size)

\* mutant: an entry whose payload is a PNG that does not decode is skipped
skipEntry_probePayload(e, d) ==
    \/ U32IsZero(e.Offset)
    \/ U32IsZero(e.Size)
    \/ SumExceeds(e.Offset, e.Size, Len(d))
    \/ LET payload == Slice(d, U32ToInt(e.Offset),
                            U32ToInt(e.Offset) + U32ToInt(e.Size))
       IN HasPrefix(payload, magicPNG) /\ ~pngDecodable(payload)

\* the entry validation of the loop: TRUE iff the entry is skipped
skipEntry(e, d) ==
    \/ U32IsZero(e.Offset)
    \/ U32IsZero(e.Size)
    \/ SumExceeds(e.Offset, e.Size, Len(d))

\* mutant: a later entry of equal resolution replaces the best one
betterEntry_geq(best, res, bestRes) == best = <<>> \/ res >= bestRes

\* mutant: the smallest entry is kept
betterEntry_min(best, res, bestRes) == best = <<>> \/ res < bestRes

\* the best-so-far test of the loop
betterEntry(best, res, bestRes) == best = <<>> \/ res > bestRes

\* one iteration of the directory loop
decodeICOEntry ==
    /\ pc = "loop"
    /\ i < header.Count
    /\ LET offset == 6 + i * 16 IN
       IF ~SliceOK(data, offset, offset + 16)
          THEN /\ result' = Panic("data[offset:offset+16]")
               /\ pc' = "done"
               /\ UNCHANGED <<i, parsed, bestEntry, bestResolution>>
          ELSE LET entry == parseICOEntry(data, offset) IN
               /\ parsed' = Append(parsed, entry)
               /\ i' = i + 1
               /\ IF ~skipEntry(entry, data)
                     /\ betterEntry(bestEntry, resolution(entry), bestResolution)
                     THEN /\ bestEntry' = <<entry>>
                          /\ bestResolution' = resolution(entry)
                     ELSE UNCHANGED <<bestEntry, bestResolution>>
               /\ UNCHANGED <<pc, result>>
    /\ UNCHANGED <<genVars, pathVars, buffer, data, formats, header, imageData, bmp, y, pix>>
    /\ UNCHANGED pixBacking

\* after the loop: fail without a surviving entry, else slice the best one;
\* the bounds of the slice expression are computed in uint32
decodeICOSelect ==
    /\ pc = "loop"
    /\ i >= header.Count
    /\ IF bestEntry = <<>>
          THEN /\ result' = ReturnError("no valid image entries found")
               /\ pc' = "done"
               /\ UNCHANGED imageData
          ELSE LET lo == bestEntry[1].Offset
                   hi == U32Add(bestEntry[1].Offset, bestEntry[1].Size)
               IN IF ~(U32Leq(lo, hi) /\ U32LeqInt(hi, Len(data)))
                     THEN /\ result' = Panic("data[Offset:Offset+Size]")
                          /\ pc' = "done"
                          /\ UNCHANGED imageData
                     ELSE /\ imageData' = Slice(data, U32ToInt(lo), U32ToInt(hi))
                          /\ pc' = "image"
                          /\ UNCHANGED result
    /\ UNCHANGED <<genVars, pathVars, buffer, data, formats, header, i, parsed, bestEntry, bestResolution,
                   bmp, y, pix>>
    /\ UNCHANGED pixBacking

\* mutant: a PNG that fails to decode falls through to the DIB decoder
decodeICOImage_fallThrough ==
    /\ pc = "image"
    /\ IF Len(imageData) < 4
          THEN /\ result' = ReturnError("ICO image data: too short")
               /\ pc' = "done"
          ELSE IF HasPrefix(imageData, magicPNG) /\ pngDecodable(imageData)
          THEN /\ result' = ReturnImage(pngBounds(imageData))
               /\ pc' = "done"
          ELSE /\ pc' = "bmp"
               /\ UNCHANGED result
    /\ UNCHANGED <<genVars, pathVars, buffer, data, formats, header, i, parsed, bestEntry, bestResolution,
                   imageData, bmp, y, pix>>
    /\ UNCHANGED pixBacking

\* decodeICOImage: dispatch of the selected slice to the PNG or DIB decoder
decodeICOImage ==
    /\ pc = "image"
    /\ IF Len(imageData) < 4
          THEN /\ result' = ReturnError("ICO image data: too short")
               /\ pc' = "done"
          ELSE IF HasPrefix(imageData, magicPNG)
          THEN /\ result' = IF pngDecodable(imageData)
                               THEN ReturnImage(pngBounds(imageData))
                               ELSE ReturnError("failed to decode PNG in ICO")
               /\ pc' = "done"
          ELSE /\ pc' = "bmp"
               /\ UNCHANGED result
    /\ UNCHANGED <<genVars, pathVars, buffer, data, formats, header, i, parsed, bestEntry, bestResolution,
                   imageData, bmp, y, pix>>
    /\ UNCHANGED pixBacking

----------------------------------------------------------------------------
(* decodeICOBMP *)

\* mutant: the entry's ColorCount does not reduce the palette
paletteBytesOf_full(bitCount, colorCount) == Pow2(bitCount) * 4

\* mutant: the image's Pix slice is taken from the input buffer
NewRGBA_alias(r) == [rect |-> r, backing |-> "input"]

\* image.NewRGBA: an image with the given bounds over a new, zeroed array
NewRGBA(r) == [rect |-> r, backing |-> "fresh"]

\* the palette size in bytes for an indexed depth
paletteBytesOf(bitCount, colorCount) ==
    LET full == Pow2(bitCount)
        paletteSize == IF colorCount > 0 /\ colorCount < full
                          THEN colorCount ELSE full
    IN paletteSize * 4

\* decodeICOBMP up to the dispatch on the bit depth: BITMAPINFOHEADER,
\* fallback dimensions, palette, output image, data[pixelOffset:]
decodeICOBMP ==
    /\ pc = "bmp"
    /\ LET d == imageData
           entry == bestEntry[1]
       IN
       IF Len(d) < 40
          THEN /\ result' = ReturnError("ICO BMP data: too short for header")
               /\ pc' = "done"
               /\ UNCHANGED <<bmp, y>>
       ELSE
       LET headerSize == Uint32LE(d, 0)
           width0 == Int32(Uint32LE(d, 4))
           height0 == GoDiv(Int32(Uint32LE(d, 8)), 2)
           bitCount == Uint16LE(d, 14)
           compression == Uint32LE(d, 16)
           width == IF width0 = 0 THEN getActualWidth(entry) ELSE width0
           height == IF height0 = 0 THEN getActualHeight(entry) ELSE height0
           paletteBytes == IF bitCount <= 8
                              THEN paletteBytesOf(bitCount, entry.ColorCount)
                              ELSE 0
           rect == Rect(0, 0, width, height)
       IN
       IF U32LtInt(headerSize, 40)
          THEN /\ result' = ReturnError("ICO BMP: unsupported header size")
               /\ pc' = "done"
               /\ UNCHANGED <<bmp, y>>
       ELSE IF ~U32IsZero(compression)
          THEN /\ result' = ReturnError("ICO BMP: compressed BMP not supported")
               /\ pc' = "done"
               /\ UNCHANGED <<bmp, y>>
       ELSE IF bitCount <= 8
                 /\ SumExceeds(headerSize, U32Of(paletteBytes), Len(d))
          THEN /\ result' = ReturnError("ICO BMP: too short for palette")
               /\ pc' = "done"
               /\ UNCHANGED <<bmp, y>>
       ELSE IF bitCount \notin {1, 4, 8, 24, 32}
          THEN /\ result' = ReturnError("ICO BMP: unsupported bit depth")
               /\ pc' = "done"
               /\ UNCHANGED <<bmp, y>>
       ELSE IF SumExceeds(headerSize, U32Of(paletteBytes), Len(d))
          THEN /\ result' = Panic("data[pixelOffset:]")
               /\ pc' = "done"
               /\ UNCHANGED <<bmp, y>>
       ELSE LET pixelOffset == U32ToInt(headerSize) + paletteBytes IN
            /\ bmp' = [width |-> width, height |-> height,
                       bitCount |-> bitCount, pixelOffset |-> pixelOffset,
                       palette |-> IF bitCount <= 8
                                      THEN Slice(d, U32ToInt(headerSize), pixelOffset)
                                      ELSE <<>>,
                       pixels |-> Slice(d, pixelOffset, Len(d)),
                       rect |-> rect]
            /\ y' = 0
            /\ pc' = "rows"
            /\ UNCHANGED result
    /\ UNCHANGED <<genVars, pathVars, buffer, data, formats, header, i, parsed, bestEntry, bestResolution,
                   imageData, pix>>
    /\ pixBacking' = IF pc' = "rows"
                        THEN NewRGBA(bmp'.rect).backing
                        ELSE pixBacking

----------------------------------------------------------------------------
(* Per-depth row decoders.  A row function maps x to the colour written by  *)
(* img.SetRGBA(x, y, c), or to <<>> when the pixel is not written.          *)

\* mutant: the alpha is the fourth byte of the palette entry
paletteColor_storedAlpha(palette, v) ==
    LET paletteIdx == v * 4 IN
    IF paletteIdx + 3 < Len(palette)
       THEN <<At(palette, paletteIdx + 2), At(palette, paletteIdx + 1),
              At(palette, paletteIdx), At(palette, paletteIdx + 3)>>
       ELSE <<>>

\* colour of palette index v: B, G, R stored, alpha forced to 255
paletteColor(palette, v) ==
    LET paletteIdx == v * 4 IN
    IF paletteIdx + 3 < Len(palette)
       THEN <<At(palette, paletteIdx + 2), At(palette, paletteIdx + 1),
              At(palette, paletteIdx), 255>>
       ELSE <<>>

rowSize1(width) == GoDiv(width + 31, 32) * 4
rowSize4(width) == GoDiv(width * 4 + 31, 32) * 4
\* mutant: the 8-bit stride is not padded to four bytes
rowSize8_unpadded(width) == width

rowSize8(width) == GoDiv(width + 3, 4) * 4
rowSize24(width) == GoDiv(width * 3 + 3, 4) * 4
rowSize32(width) == width * 4

\* bytes of the row that the truncation test of each decoder asks for
rowNeed(bitCount, width) ==
    CASE bitCount = 1 -> rowSize1(width)
      [] bitCount = 4 -> rowSize4(width)
      [] bitCount = 8 -> width
      [] bitCount = 24 -> width * 3
      [] bitCount = 32 -> width * 4

rowSizeOf(bitCount, width) ==
    CASE bitCount = 1 -> rowSize1(width)
      [] bitCount = 4 -> rowSize4(width)
      [] bitCount = 8 -> rowSize8(width)
      [] bitCount = 24 -> rowSize24(width)
      [] bitCount = 32 -> rowSize32(width)

\* offsets of the bytes of d that the inner loop reads for pixel x
pixelReads(bitCount, rowOffset, x) ==
    CASE bitCount = 1 -> {rowOffset + (x \div 8)}
      [] bitCount = 4 -> {rowOffset + (x \div 2)}
      [] bitCount = 8 -> {rowOffset + x}
      [] bitCount = 24 -> {rowOffset + x * 3 + k : k \in 0..2}
      [] bitCount = 32 -> {rowOffset + x * 4 + k : k \in 0..3}

\* mutant: the bits of a byte are taken least significant first
pixel1_lsbFirst(d, palette, rowOffset, x) ==
    LET byteIdx == x \div 8
        bitIdx == x % 8
        pixelValue == (At(d, rowOffset + byteIdx) \div Pow2(bitIdx)) % 2
    IN paletteColor(palette, pixelValue)

pixel1(d, palette, rowOffset, x) ==
    LET byteIdx == x \div 8
        bitIdx == 7 - (x % 8)
        pixelValue == (At(d, rowOffset + byteIdx) \div Pow2(bitIdx)) % 2
    IN paletteColor(palette, pixelValue)

pixel4(d, palette, rowOffset, x) ==
    LET byteIdx == x \div 2
        pixelValue == IF x % 2 = 0
                         THEN (At(d, rowOffset + byteIdx) \div 16) % 16
                         ELSE At(d, rowOffset + byteIdx) % 16
    IN paletteColor(palette, pixelValue)

pixel8(d, palette, rowOffset, x) ==
    paletteColor(palette, At(d, rowOffset + x))

pixel24(d, rowOffset, x) ==
    LET pixelOffset == rowOffset + x * 3 IN
    <<At(d, pixelOffset + 2), At(d, pixelOffset + 1), At(d, pixelOffset), 255>>

pixel32(d, rowOffset, x) ==
    LET pixelOffset == rowOffset + x * 4 IN
    <<At(d, pixelOffset + 2), At(d, pixelOffset + 1), At(d, pixelOffset),
      At(d, pixelOffset + 3)>>

pixelOf(bitCount, d, palette, rowOffset, x) ==
    CASE bitCount = 1 -> pixel1(d, palette, rowOffset, x)
      [] bitCount = 4 -> pixel4(d, palette, rowOffset, x)
      [] bitCount = 8 -> pixel8(d, palette, rowOffset, x)
      [] bitCount = 24 -> pixel24(d, rowOffset, x)
      [] bitCount = 32 -> pixel32(d, rowOffset, x)

\* one iteration of the row loop of the decoder for the given depth: the
\* loop ends (y = height) or breaks (row truncated) with the image returned
decodeRow(bitCount) ==
    /\ pc = "rows"
    /\ bmp.bitCount = bitCount
    /\ LET width == bmp.width
           height == bmp.height
           d == bmp.pixels
           rowSize == rowSizeOf(bitCount, width)
           srcY == height - 1 - y
           rowOffset == srcY * rowSize
           xs == 0..(width - 1)
           reads == UNION {pixelReads(bitCount, rowOffset, x) : x \in xs}
       IN
       IF y >= height \/ rowOffset + rowNeed(bitCount, width) > Len(d)
          THEN /\ result' = ReturnImage(bmp.rect)
               /\ pc' = "done"
               /\ UNCHANGED <<y, pix>>
       ELSE IF \E k \in reads : k < 0 \/ k >= Len(d)
          THEN /\ result' = Panic("data[rowOffset+...]")
               /\ pc' = "done"
               /\ UNCHANGED <<y, pix>>
       ELSE LET set == {x \in xs :
                          /\ InRect(x, y, bmp.rect)
                          /\ pixelOf(bitCount, d, bmp.palette, rowOffset, x) # <<>>}
            IN
            /\ pix' = [p \in DOMAIN pix \cup {<<x, y>> : x \in set} |->
                         IF p[2] = y /\ p[1] \in set
                            THEN pixelOf(bitCount, d, bmp.palette, rowOffset, p[1])
                            ELSE pix[p]]
            /\ y' = y + 1
            /\ UNCHANGED <<pc, result>>
    /\ UNCHANGED <<genVars, pathVars, buffer, data, formats, header, i, parsed, bestEntry, bestResolution,
                   imageData, bmp>>
    /\ UNCHANGED pixBacking

decodeICOBMP1 == decodeRow(1)
decodeICOBMP4 == decodeRow(4)
decodeICOBMP8 == decodeRow(8)
decodeICOBMP24 == decodeRow(24)
decodeICOBMP32 == decodeRow(32)

----------------------------------------------------------------------------
(* Input buffers.  The encoders mirror the test generator                  *)
(* generateICOWithPNGImages: header, directory, then the payloads in       *)
(* directory order.                                                        *)

PutUint16LE(v) == <<v % 256, (v \div 256) % 256>>

\* the four little-endian bytes of an int32 (two's complement)
PutInt32LE(v) ==
    <<v % 256, (v \div 256) % 256, (v \div 65536) % 256, (v \div 16777216) % 256>>

PutUint32LE(u) == PutUint16LE(u.lo) \o PutUint16LE(u.hi)

PutUint32BE(v) ==
    <<(v \div 16777216) % 256, (v \div 65536) % 256, (v \div 256) % 256, v % 256>>

RECURSIVE Concat(_)
Concat(ss) == IF ss = <<>> THEN <<>> ELSE Head(ss) \o Concat(Tail(ss))

RECURSIVE SumLen(_, _)
SumLen(ss, n) == IF n = 0 THEN 0 ELSE Len(ss[n]) + SumLen(ss, n - 1)

Prefix(d, n) == SubSeq(d, 1, IF n < Len(d) THEN n ELSE Len(d))

Prefixes(d, lens) == {Prefix(d, n) : n \in lens}

\* bytes that stand for arbitrary payload content
FillPattern == <<1, 0, 16, 255, 0, 129, 1, 17, 200, 3, 64>>

Fill(n) == [k \in 1..n |-> FillPattern[((k - 1) % Len(FillPattern)) + 1]]

PNGStream(w, h) ==
    magicPNG \o PutUint32BE(13) \o pngIHDR \o PutUint32BE(w) \o PutUint32BE(h)
             \o pngIEND

\* a PNG stream that lost its trailer
PNGBroken(w, h) == Prefix(PNGStream(w, h), 24)

\* a headerless DIB: BITMAPINFOHEADER (40 bytes) followed by n more bytes
DIB(headerSize, w, h2, bitCount, compression, n) ==
    PutUint32LE(headerSize) \o PutInt32LE(w) \o PutInt32LE(h2)
        \o PutUint16LE(1) \o PutUint16LE(bitCount) \o PutUint32LE(compression)
        \o [k \in 1..20 |-> 0] \o Fill(n)

BuildHeader(reserved, type, count) ==
    PutUint16LE(reserved) \o PutUint16LE(type) \o PutUint16LE(count)

BuildEntry(wb, hb, colorCount, size, offset) ==
    <<wb, hb, colorCount, 0>> \o PutUint16LE(1) \o PutUint16LE(32)
        \o PutUint32LE(size) \o PutUint32LE(offset)

ActualDim(b) == IF b = 0 THEN 256 ELSE b

\* A slot describes one directory entry and its payload:
\*   fault "ok"      - Size and Offset describe the payload
\*   fault "offset0" - Offset field 0
\*   fault "size0"   - Size field 0
\*   fault "overrun" - Size reaches one byte past the end of the buffer
\*   fault "wrap"    - Size is 2^32 - 1, Offset + Size wraps in uint32
Slot(wb, hb, cc, fault, payload) ==
    [wb |-> wb, hb |-> hb, cc |-> cc, fault |-> fault, payload |-> payload]

PNGSlot(wb, hb) == Slot(wb, hb, 0, "ok", PNGStream(ActualDim(wb), ActualDim(hb)))

BuildICO(reserved, type, count, slots) ==
    LET n == Len(slots)
        payloads == [k \in 1..n |-> slots[k].payload]
        base == 6 + 16 * n
        total == base + SumLen(payloads, n)
        entryOf(k) ==
            LET s == slots[k]
                off == base + SumLen(payloads, k - 1)
            IN BuildEntry(s.wb, s.hb, s.cc,
                          CASE s.fault = "size0" -> U32Of(0)
                            [] s.fault = "overrun" -> U32Of(total - off + 1)
                            [] s.fault = "wrap" -> MaxU32
                            [] OTHER -> U32Of(Len(s.payload)),
                          IF s.fault = "offset0" THEN U32Of(0) ELSE U32Of(off))
    IN BuildHeader(reserved, type, count)
           \o Concat([k \in 1..n |-> entryOf(k)]) \o Concat(payloads)

\* containers: every directory of 1..MaxEntries slots over SlotKinds
SquareBytes == {1, 2, 255, 0}

SlotKinds ==
    {PNGSlot(b, b) : b \in SquareBytes}
    \cup {PNGSlot(1, 2), PNGSlot(2, 1)}
    \cup {Slot(0, 0, 0, f, PNGStream(256, 256)) : f \in {"offset0", "size0", "overrun", "wrap"}}
    \cup {Slot(0, 0, 0, "ok", PNGBroken(256, 256))}

RECURSIVE SeqsOf(_, _)
SeqsOf(S, n) ==
    IF n = 0 THEN {<<>>}
    ELSE {Append(q, e) : q \in SeqsOf(S, n - 1), e \in S}

ContainerInputs ==
    UNION {{BuildICO(0, 1, n, slots) : slots \in SeqsOf(SlotKinds, n)} :
             n \in 1..MaxEntries}

\* headers: every combination of the three header fields in front of a
\* decodable two-entry container, cut at the lengths around the header and
\* the directory slots
HeaderBase(reserved, type, count) ==
    BuildICO(reserved, type, count, <<PNGSlot(1, 1), PNGSlot(2, 2)>>)

CutLengths(d) ==
    (0..7) \cup {6 + 16 * k + j : k \in 1..3, j \in {-1, 0, 1}}
           \cup {Len(d) - 1, Len(d)}

HeaderInputs ==
    UNION {Prefixes(HeaderBase(r, t, c), CutLengths(HeaderBase(r, t, c))) :
             r \in {0, 1, 256}, t \in {0, 1, 2, 256}, c \in {0, 1, 2, 3, 65535}}

\* embedded DIBs: a one-entry container around a DIB
BMPIco(wb, hb, cc, dib) == BuildICO(0, 1, 1, <<Slot(wb, hb, cc, "ok", dib)>>)

\* decodable DIBs of every depth with 0..MaxPixRows stored rows, whole or
\* cut inside the last row, and with the palette cut short
PixelLengths(bitCount, w) ==
    {r * rowSizeOf(bitCount, w) : r \in 0..MaxPixRows}
    \cup {r * rowSizeOf(bitCount, w) + rowNeed(bitCount, w) + j :
            r \in 0..(MaxPixRows - 1), j \in {-1, 0}}

GoodDIBs(cc) ==
    UNION {{DIB(U32Of(hs), w, h2, bc, U32Of(0),
                (hs - 40) + (IF bc <= 8 THEN paletteBytesOf(bc, cc) ELSE 0) + n) :
              n \in PixelLengths(bc, w) \cup {-1}} :
             hs \in {40, 44}, w \in {1, 2, 9}, h2 \in {2, 4},
             bc \in {1, 4, 8, 24, 32}}

GoodBMPInputs ==
    UNION {{BMPIco(3, 3, cc, dib) : dib \in GoodDIBs(cc)} : cc \in {0, 2}}

\* DIB headers with unusual fields
OddDIBs ==
    {DIB(hs, w, h2, bc, comp, n) :
       hs \in {U32Of(39), U32Of(40), U32Of(1000), MaxU32},
       w \in {0, -1, 2},
       h2 \in {0, 1, -3, 4},
       bc \in {0, 2, 8, 16, 32, 48},
       comp \in {U32Of(0), U32Of(1)},
       n \in {0, 8}}

OddBMPInputs ==
    UNION {{BMPIco(b[1], b[2], 0, dib) : dib \in OddDIBs} :
             b \in {<<0, 0>>, <<2, 3>>}}

\* payloads too short for the dispatch or for the BITMAPINFOHEADER
ShortInputs ==
    {BMPIco(2, 2, 0, Prefix(DIB(U32Of(40), 2, 4, 32, U32Of(0), 16), n)) : n \in {1, 3, 4, 39, 40}}
    \cup {BMPIco(2, 2, 0, Prefix(PNGStream(2, 2), n)) : n \in {3, 4, 7, 8, 31}}

\* buffers around the magic sequences: every magic followed by up to MaxTail
\* arbitrary bytes, every proper prefix of it, and every single-byte
\* corruption of it
TailBytes == {0, 66, 255}

Tails == UNION {SeqsOf(TailBytes, n) : n \in 0..MaxTail}

Magics ==
    {magicPNG, magicJPEG, magicBMP, magicICO}
    \cup {magicRIFF \o PutUint32LE(sz) \o magicWEBP :
            sz \in {U32Of(0), U32Of(4), Uint32LE(magicWEBP, 0), MaxU32}}

Corrupt(m) ==
    UNION {{[m EXCEPT ![k] = b] : b \in {0, (m[k] + 1) % 256, 77}} :
             k \in 1..Len(m)}

\* a buffer that starts as the magic m and goes on as the magic n
Overlay(m, n) == m \o SubSeq(n, Len(m) + 1, Len(n))

OverlayInputs == {Overlay(m, n) : m \in Magics, n \in Magics}

MagicInputs ==
    UNION {{m \o t : t \in Tails} \cup Prefixes(m, 0..Len(m))
             \cup {c \o <<0, 0>> : c \in Corrupt(m)} : m \in Magics}
    \cup OverlayInputs

Inputs ==
    MagicInputs \cup HeaderInputs \cup ContainerInputs \cup GoodBMPInputs
                \cup OddBMPInputs \cup ShortInputs

----------------------------------------------------------------------------
(* Specification *)

\* the goroutines that call the Generator, the container ids and the
\* *AppConfig pointers they pass
Threads == {"g1", "g2"}

ContainerIDs == {"c1", "c2"}

Configs == {"cfgA", "cfgB"}

\* sync.RWMutex: the goroutines holding it for reading, the one holding it
\* for writing ("" for none)
NoLock == [readers |-> {}, writer |-> ""]

\* a Go map as a function on the keys present; the empty map is <<>>
MapSet(m, k, v) == [j \in DOMAIN m \cup {k} |-> IF j = k THEN v ELSE m[j]]

MapDelete(m, k) == [j \in DOMAIN m \ {k} |-> m[j]]

\* a goroutine holds no map / holds the map a GetAllInstalled call returned
NoMap == [has |-> FALSE, backing |-> "none", content |-> <<>>]

IdleThread ==
    [pc |-> "idle", op |-> "none", id |-> "", cfg |-> "", ret |-> "none",
     visited |-> {}, held |-> NoMap]

\* what a resolveFilePath call returns: (path, nil) or ("", error)
NoResolved == [kind |-> "none", path |-> <<>>, err |-> ""]

ResolvedPath(path) == [kind |-> "path", path |-> path, err |-> ""]

ResolveError(msg) == [kind |-> "error", path |-> <<>>, err |-> msg]

Init ==
    /\ data \in Inputs
    /\ pc = "ready"
    /\ formats = <<>>
    /\ header = NoHeader
    /\ i = 0
    /\ parsed = <<>>
    /\ bestEntry = <<>>
    /\ bestResolution = 0
    /\ imageData = <<>>
    /\ bmp = NoBMP
    /\ y = 0
    /\ pix = <<>>
    /\ result = NoResult
    /\ fileURL = <<>>
    /\ basePath = <<>>
    /\ resolved = NoResolved
    /\ buffer = data
    /\ pixBacking = "none"
    /\ installed = <<>>
    /\ mu = NoLock
    /\ threads = [t \in Threads |-> IdleThread]
    /\ completed = <<>>
    /\ ncalls = 0

\* a call of detectFormat on the buffer, made before the buffer is decoded
DetectFormat ==
    /\ pc = "ready"
    /\ Len(formats) < MaxCalls
    /\ formats' = Append(formats, detectFormat(data))
    /\ UNCHANGED <<genVars, pathVars, buffer, data, pc, header, i, parsed, bestEntry, bestResolution,
                   imageData, bmp, y, pix, result>>
    /\ UNCHANGED pixBacking

\* the pixels an image would show if its Pix slice were a view of buf
PixelsOver(buf) ==
    LET off == U32ToInt(bestEntry[1].Offset)
        d == Slice(buf, off + bmp.pixelOffset, off + Len(imageData))
        palette == Slice(buf, off + bmp.pixelOffset - Len(bmp.palette),
                         off + bmp.pixelOffset)
    IN [q \in DOMAIN pix |->
          pixelOf(bmp.bitCount, d, palette,
                  (bmp.height - 1 - q[2]) * rowSizeOf(bmp.bitCount, bmp.width),
                  q[1])]

\* bytes the caller overwrites: the first byte of the pixel data, the last
\* byte of the buffer
WritePositions ==
    {U32ToInt(bestEntry[1].Offset) + bmp.pixelOffset + 1, Len(buffer)}
        \cap (1..Len(buffer))

\* the caller writes to its buffer after decodeICO returned a decoded DIB
WriteInput ==
    /\ pc = "done"
    /\ result.kind = "image"
    /\ pixBacking # "none"
    /\ \E k \in WritePositions :
         buffer' = [buffer EXCEPT ![k] = (@ + 1) % 256]
    /\ pix' = IF pixBacking = "input" THEN PixelsOver(buffer') ELSE pix
    /\ pc' = "written"
    /\ UNCHANGED <<genVars, pathVars, data, formats, header, i, parsed, bestEntry,
                   bestResolution, imageData, bmp, y, result, pixBacking>>

Next ==
    \/ DetectFormat
    \/ decodeICOHeader
    \/ decodeICOEntry
    \/ decodeICOSelect
    \/ decodeICOImage
    \/ decodeICOBMP
    \/ decodeICOBMP1
    \/ decodeICOBMP4
    \/ decodeICOBMP8
    \/ decodeICOBMP24
    \/ decodeICOBMP32
    \/ WriteInput

Spec == Init /\ [][Next]_vars

TypeOK ==
    /\ pc \in {"ready", "loop", "image", "bmp", "rows", "done", "written", "path",
             "gen"}
    /\ pixBacking \in {"none", "fresh", "input"}
    /\ resolved.kind \in {"none", "path", "error"}
    /\ result.kind \in {"none", "image", "error", "panic"}
    /\ (pc \in {"done", "written"}) = (result.kind # "none")

----------------------------------------------------------------------------
(* resolveFilePath.  A Go string is a sequence of one-character strings.   *)

Scheme == <<"f", "i", "l", "e", ":", "/", "/">>

Separator == "/"

\* strings.TrimPrefix
TrimPrefix(s, prefix) ==
    IF HasPrefix(s, prefix) THEN SubSeq(s, Len(prefix) + 1, Len(s)) ELSE s

\* length of the run of s up to its first separator; s starts with none
RunLen(s) ==
    CHOOSE n \in 1..Len(s) :
        /\ \A k \in 1..n : s[k] # Separator
        /\ n = Len(s) \/ s[n + 1] = Separator

\* the path elements of s: the non-empty runs between separators
RECURSIVE Elements(_)
Elements(s) ==
    IF s = <<>> THEN <<>>
    ELSE IF Head(s) = Separator THEN Elements(Tail(s))
    ELSE <<SubSeq(s, 1, RunLen(s))>> \o Elements(SubSeq(s, RunLen(s) + 1, Len(s)))

Dot == <<".">>

DotDot == <<".", ".">>

\* filepath.Clean, the element loop: "." is dropped; ".." removes the
\* element before it when there is one that is not "..", is dropped at the
\* root, and is kept otherwise
RECURSIVE CleanElements(_, _, _)
CleanElements(elems, out, rooted) ==
    IF elems = <<>> THEN out
    ELSE LET e == Head(elems)
             rest == Tail(elems)
         IN IF e = Dot THEN CleanElements(rest, out, rooted)
            ELSE IF e = DotDot
            THEN IF out # <<>> /\ out[Len(out)] # DotDot
                 THEN CleanElements(rest, SubSeq(out, 1, Len(out) - 1), rooted)
                 ELSE IF ~rooted THEN CleanElements(rest, Append(out, e), rooted)
                 ELSE CleanElements(rest, out, rooted)
            ELSE CleanElements(rest, Append(out, e), rooted)

\* strings.Join
RECURSIVE StringsJoin(_, _)
StringsJoin(elems, sep) ==
    IF elems = <<>> THEN <<>>
    ELSE IF Len(elems) = 1 THEN elems[1]
    ELSE elems[1] \o sep \o StringsJoin(Tail(elems), sep)

\* filepath.Clean
Clean(s) ==
    LET rooted == s # <<>> /\ s[1] = Separator
        out == StringsJoin(CleanElements(Elements(s), <<>>, rooted), <<Separator>>)
    IN IF rooted THEN <<Separator>> \o out
       ELSE IF out = <<>> THEN Dot
       ELSE out

\* mutant: the elements are joined with the separator and not cleaned
Join_noClean(elem) ==
    IF \A k \in 1..Len(elem) : elem[k] = <<>> THEN <<>>
    ELSE LET first == CHOOSE k \in 1..Len(elem) :
                          elem[k] # <<>> /\ \A j \in 1..(k - 1) : elem[j] = <<>>
         IN StringsJoin(SubSeq(elem, first, Len(elem)), <<Separator>>)

\* filepath.Join: the elements from the first non-empty one on, joined with
\* the separator and cleaned; "" when every element is empty
Join(elem) ==
    IF \A k \in 1..Len(elem) : elem[k] = <<>> THEN <<>>
    ELSE LET first == CHOOSE k \in 1..Len(elem) :
                          elem[k] # <<>> /\ \A j \in 1..(k - 1) : elem[j] = <<>>
         IN Clean(StringsJoin(SubSeq(elem, first, Len(elem)), <<Separator>>))

\* mutant: an absolute path is joined to a non-empty base like a relative one
resolveFilePath_joinAbsolute(url, base) ==
    LET path == TrimPrefix(url, Scheme)
    IN IF base = <<>> /\ ~HasPrefix(path, <<Separator>>)
       THEN ResolveError("relative path requires base path")
       ELSE IF base = <<>> THEN ResolvedPath(path)
       ELSE ResolvedPath(Join(<<base, path>>))

\* mutant: the base is not tested, a relative path is joined to an empty base
resolveFilePath_noBaseTest(url, base) ==
    LET path == TrimPrefix(url, Scheme)
    IN IF HasPrefix(path, <<Separator>>) THEN ResolvedPath(path)
       ELSE ResolvedPath(Join(<<base, path>>))

\* resolveFilePath: the scheme is stripped; an absolute path is returned as
\* it is; a relative path needs a base and is joined to it
resolveFilePath(url, base) ==
    LET path == TrimPrefix(url, Scheme)
    IN IF HasPrefix(path, <<Separator>>) THEN ResolvedPath(path)
       ELSE IF base = <<>> THEN ResolveError("relative path requires base path")
       ELSE ResolvedPath(Join(<<base, path>>))

\* Inputs of the resolver
PathChars == {"/", ".", "a"}

RECURSIVE PathsOfLen(_)
PathsOfLen(n) ==
    IF n = 0 THEN {<<>>}
    ELSE {Append(q, c) : q \in PathsOfLen(n - 1), c \in PathChars}

PathInputs == UNION {PathsOfLen(n) : n \in 0..MaxPathLen}

BaseInputs ==
    {<<>>, <<"/">>, <<"b">>, <<"/", "b">>, <<"/", "b", "/", "c">>,
     <<"/", "b", "/">>, <<"b", "/", ".", ".">>, <<".", ".">>, <<".">>}

InitPath ==
    /\ data = <<>>
    /\ pc = "path"
    /\ formats = <<>>
    /\ header = NoHeader
    /\ i = 0
    /\ parsed = <<>>
    /\ bestEntry = <<>>
    /\ bestResolution = 0
    /\ imageData = <<>>
    /\ bmp = NoBMP
    /\ y = 0
    /\ pix = <<>>
    /\ result = NoResult
    /\ fileURL \in {Scheme \o q : q \in PathInputs}
    /\ basePath \in BaseInputs
    /\ resolved = NoResolved
    /\ buffer = <<>>
    /\ pixBacking = "none"
    /\ installed = <<>>
    /\ mu = NoLock
    /\ threads = [t \in Threads |-> IdleThread]
    /\ completed = <<>>
    /\ ncalls = 0

\* a call of resolveFilePath
ResolveFilePath ==
    /\ pc = "path"
    /\ resolved.kind = "none"
    /\ resolved' = resolveFilePath(fileURL, basePath)
    /\ UNCHANGED <<data, pc, formats, header, i, parsed, bestEntry,
                   bestResolution, imageData, bmp, y, pix, result,
                   fileURL, basePath, buffer, pixBacking>>
    /\ UNCHANGED genVars

NextPath == ResolveFilePath

SpecPath == InitPath /\ [][NextPath]_vars

----------------------------------------------------------------------------
(* The Generator's registry of installed apps.  Goroutines call the five   *)
(* accessors of g.installed concurrently; each call is the steps of its    *)
(* code: take g.mu, read or write the map, and return, where the deferred  *)
(* unlock runs.                                                            *)

Writers == {"MarkInstalled", "MarkUninstalled"}

\* every accessor takes the read lock
LockKind_allRead(op) == "RLock"

\* the lock an accessor takes as its first statement
LockKind(op) == IF op \in Writers THEN "Lock" ELSE "RLock"

\* the result map shares the registry's storage
makeMap_alias(owner) == [has |-> TRUE, backing |-> "installed", content |-> <<>>]

\* make(map[string]*AppConfig): a new, empty map of the calling goroutine
makeMap(owner) == [has |-> TRUE, backing |-> "fresh", content |-> <<>>]

\* the pairs a goroutine finds in the map it holds
View(t) ==
    IF threads[t].held.backing = "installed" THEN installed
    ELSE threads[t].held.content

\* the calls a goroutine can make
Calls ==
    {[op |-> "MarkInstalled", id |-> c, cfg |-> a] :
        c \in ContainerIDs, a \in Configs}
    \cup {[op |-> o, id |-> c, cfg |-> ""] :
        o \in {"MarkUninstalled", "IsInstalled", "GetInstalledApp"},
        c \in ContainerIDs}
    \cup {[op |-> "GetAllInstalled", id |-> "", cfg |-> ""]}

InitGen ==
    /\ data = <<>>
    /\ pc = "gen"
    /\ formats = <<>>
    /\ header = NoHeader
    /\ i = 0
    /\ parsed = <<>>
    /\ bestEntry = <<>>
    /\ bestResolution = 0
    /\ imageData = <<>>
    /\ bmp = NoBMP
    /\ y = 0
    /\ pix = <<>>
    /\ result = NoResult
    /\ fileURL = <<>>
    /\ basePath = <<>>
    /\ resolved = NoResolved
    /\ buffer = <<>>
    /\ pixBacking = "none"
    /\ installed = <<>>
    /\ mu = NoLock
    /\ threads = [t \in Threads |-> IdleThread]
    /\ completed = <<>>
    /\ ncalls = 0

icoVars ==
    <<data, pc, formats, header, i, parsed, bestEntry, bestResolution,
      imageData, bmp, y, pix, result, buffer, pixBacking>>

\* a goroutine calls one of the accessors
Call(t) ==
    /\ pc = "gen"
    /\ threads[t].pc = "idle"
    /\ ncalls < MaxOps
    /\ \E c \in Calls :
        threads' = [threads EXCEPT ![t] =
            [@ EXCEPT !.pc = "acquire", !.op = c.op, !.id = c.id,
                      !.cfg = c.cfg, !.ret = "none", !.visited = {}]]
    /\ ncalls' = ncalls + 1
    /\ UNCHANGED <<installed, mu, completed, icoVars, pathVars>>

\* g.mu.RLock(): blocks while a writer holds the mutex
RLock(t) ==
    /\ pc = "gen"
    /\ threads[t].pc = "acquire"
    /\ LockKind(threads[t].op) = "RLock"
    /\ mu.writer = ""
    /\ mu' = [mu EXCEPT !.readers = @ \cup {t}]
    /\ threads' = [threads EXCEPT ![t].pc = "body"]
    /\ UNCHANGED <<installed, completed, ncalls, icoVars, pathVars>>

\* g.mu.Lock(): blocks while a writer or a reader holds the mutex
Lock(t) ==
    /\ pc = "gen"
    /\ threads[t].pc = "acquire"
    /\ LockKind(threads[t].op) = "Lock"
    /\ mu.writer = ""
    /\ mu.readers = {}
    /\ mu' = [mu EXCEPT !.writer = t]
    /\ threads' = [threads EXCEPT ![t].pc = "body"]
    /\ UNCHANGED <<installed, completed, ncalls, icoVars, pathVars>>

\* _, exists := g.installed[containerID]
IsInstalled(t) ==
    /\ pc = "gen"
    /\ threads[t].pc = "body"
    /\ threads[t].op = "IsInstalled"
    /\ threads' = [threads EXCEPT ![t] =
          [@ EXCEPT !.pc = "return",
                    !.ret = threads[t].id \in DOMAIN installed]]
    /\ UNCHANGED <<installed, mu, completed, ncalls, icoVars, pathVars>>

\* g.installed[containerID]: the zero value, nil, for a missing key
GetInstalledApp(t) ==
    /\ pc = "gen"
    /\ threads[t].pc = "body"
    /\ threads[t].op = "GetInstalledApp"
    /\ threads' = [threads EXCEPT ![t] =
          [@ EXCEPT !.pc = "return",
                    !.ret = IF threads[t].id \in DOMAIN installed
                            THEN installed[threads[t].id] ELSE "nil"]]
    /\ UNCHANGED <<installed, mu, completed, ncalls, icoVars, pathVars>>

\* g.installed[containerID] = config
MarkInstalled(t) ==
    /\ pc = "gen"
    /\ threads[t].pc = "body"
    /\ threads[t].op = "MarkInstalled"
    /\ installed' = MapSet(installed, threads[t].id, threads[t].cfg)
    /\ threads' = [threads EXCEPT ![t].pc = "return"]
    /\ UNCHANGED <<mu, completed, ncalls, icoVars, pathVars>>

\* delete(g.installed, containerID)
MarkUninstalled(t) ==
    /\ pc = "gen"
    /\ threads[t].pc = "body"
    /\ threads[t].op = "MarkUninstalled"
    /\ installed' = MapDelete(installed, threads[t].id)
    /\ threads' = [threads EXCEPT ![t].pc = "return"]
    /\ UNCHANGED <<mu, completed, ncalls, icoVars, pathVars>>

\* result := make(map[string]*AppConfig), and the range loop is entered
GetAllInstalled(t) ==
    /\ pc = "gen"
    /\ threads[t].pc = "body"
    /\ threads[t].op = "GetAllInstalled"
    /\ threads' = [threads EXCEPT ![t] =
          [@ EXCEPT !.pc = IF DOMAIN installed = {} THEN "return" ELSE "copy",
                    !.held = makeMap(t)]]
    /\ UNCHANGED <<installed, mu, completed, ncalls, icoVars, pathVars>>

\* one iteration of the range loop: result[k] = v, for a key of g.installed
\* the loop has not produced yet
GetAllInstalledCopy(t) ==
    /\ pc = "gen"
    /\ threads[t].pc = "copy"
    /\ \E k \in DOMAIN installed \ threads[t].visited :
        LET seen == threads[t].visited \cup {k}
            aliased == threads[t].held.backing = "installed"
        IN  /\ threads' = [threads EXCEPT ![t] =
                  [@ EXCEPT !.pc = IF DOMAIN installed \subseteq seen
                                   THEN "return" ELSE "copy",
                            !.visited = seen,
                            !.held = IF aliased THEN @
                                     ELSE [@ EXCEPT !.content =
                                             MapSet(@, k, installed[k])]]]
            /\ installed' = IF aliased THEN MapSet(installed, k, installed[k])
                            ELSE installed
    /\ UNCHANGED <<mu, completed, ncalls, icoVars, pathVars>>

\* the return of an accessor: the deferred RUnlock or Unlock runs, and the
\* call is complete
Return(t) ==
    /\ pc = "gen"
    /\ threads[t].pc = "return"
    /\ mu' = [readers |-> mu.readers \ {t},
              writer |-> IF mu.writer = t THEN "" ELSE mu.writer]
    /\ completed' =
          CASE threads[t].op = "MarkInstalled" ->
                   MapSet(completed, threads[t].id, threads[t].cfg)
            [] threads[t].op = "MarkUninstalled" ->
                   MapDelete(completed, threads[t].id)
            [] OTHER -> completed
    /\ threads' = [threads EXCEPT ![t] =
          [@ EXCEPT !.pc = "idle",
                    !.ret = IF threads[t].op = "GetAllInstalled" THEN "map"
                            ELSE IF threads[t].op \in Writers THEN "void"
                            ELSE @]]
    /\ UNCHANGED <<installed, ncalls, icoVars, pathVars>>

\* the caller of GetAllInstalled adds a key to the map it was given, or
\* deletes one from it
MutateReturned(t) ==
    /\ pc = "gen"
    /\ threads[t].pc = "idle"
    /\ threads[t].held.has
    /\ ncalls < MaxOps
    /\ \E k \in ContainerIDs, v \in Configs \cup {"delete"} :
        LET write(m) == IF v = "delete" THEN MapDelete(m, k) ELSE MapSet(m, k, v)
            aliased == threads[t].held.backing = "installed"
        IN  /\ threads' = [threads EXCEPT ![t].held.content =
                              IF aliased THEN @ ELSE write(@)]
            /\ installed' = IF aliased THEN write(installed) ELSE installed
    /\ ncalls' = ncalls + 1
    /\ UNCHANGED <<mu, completed, icoVars, pathVars>>

NextGen ==
    \E t \in Threads :
        \/ Call(t)
        \/ RLock(t)
        \/ Lock(t)
        \/ IsInstalled(t)
        \/ GetInstalledApp(t)
        \/ MarkInstalled(t)
        \/ MarkUninstalled(t)
        \/ GetAllInstalled(t)
        \/ GetAllInstalledCopy(t)
        \/ Return(t)
        \/ MutateReturned(t)

SpecGen == InitGen /\ [][NextGen]_vars

----------------------------------------------------------------------------
(* Properties.  The expected values are written from the file format, on   *)
(* the bytes of the buffer, not with the decoder's own operators.          *)

\* directory slot k (0-based) of the buffer, as raw bytes
SlotBytes(k) == Slice(data, 6 + 16 * k, 6 + 16 * k + 16)

\* the little-endian number held in a byte sequence b, when it is below
\* 65536; every buffer of the model is shorter than that
SmallLE(b) == b[1] + 256 * b[2]

IsSmallLE(b) == \A k \in 3..Len(b) : b[k] = 0

\* the directory entry in slot k is one the format says to skip
FaultySlot(k) ==
    LET size == Slice(SlotBytes(k), 8, 12)
        offset == Slice(SlotBytes(k), 12, 16)
    IN \/ offset = <<0, 0, 0, 0>>
       \/ size = <<0, 0, 0, 0>>
       \/ ~IsSmallLE(size)
       \/ ~IsSmallLE(offset)
       \/ SmallLE(offset) + SmallLE(size) > Len(data)

\* pixel area declared by the directory entry in slot k
SlotArea(k) == ActualDim(SlotBytes(k)[1]) * ActualDim(SlotBytes(k)[2])

\* payload of the directory entry in slot k (of a slot that is not faulty)
SlotPayload(k) ==
    LET size == SmallLE(Slice(SlotBytes(k), 8, 12))
        offset == SmallLE(Slice(SlotBytes(k), 12, 16))
    IN Slice(data, offset, offset + size)

\* the header is valid and the buffer holds the whole directory
ValidDirectory ==
    /\ Len(data) >= 6
    /\ Slice(data, 0, 4) = <<0, 0, 1, 0>>
    /\ SmallLE(Slice(data, 4, 6)) >= 1
    /\ Len(data) >= 6 + 16 * SmallLE(Slice(data, 4, 6))

DeclaredCount == SmallLE(Slice(data, 4, 6))

SlotIds == 0..(DeclaredCount - 1)

\* the call has returned
Returned == pc = "done"

\* C1: every decodeICO call ends by returning an image or an error; no
\* execution panics and no slice or index expression leaves its buffer.
C1_NeverPanics == result.kind # "panic"

\* a well-formed container of PNG entries: every entry is in bounds, holds a
\* decodable PNG stream whose size is the declared size, and at least two
\* entries differ in size
WellFormedPNGIco ==
    /\ ValidDirectory
    /\ \A k \in SlotIds :
         /\ ~FaultySlot(k)
         /\ pngDecodable(SlotPayload(k))
         /\ Uint32BE(SlotPayload(k), 16) = ActualDim(SlotBytes(k)[1])
         /\ Uint32BE(SlotPayload(k), 20) = ActualDim(SlotBytes(k)[2])
    /\ \E j, k \in SlotIds : Slice(SlotBytes(j), 0, 2) # Slice(SlotBytes(k), 0, 2)

\* C2: for a well-formed container of two or more PNG entries of distinct
\* sizes decodeICO returns an image, and the image has the size of an entry
\* of maximal area, whatever the order of the entries.
C2_HighestResolutionSelection ==
    (Returned /\ WellFormedPNGIco) =>
        /\ result.kind = "image"
        /\ result.rect.minX = 0 /\ result.rect.minY = 0
        /\ \E k \in SlotIds :
             /\ result.rect.maxX = ActualDim(SlotBytes(k)[1])
             /\ result.rect.maxY = ActualDim(SlotBytes(k)[2])
             /\ \A j \in SlotIds : SlotArea(j) <= SlotArea(k)

\* witness: three PNG entries, the largest (256x256) neither first nor last
C2_Witness ==
    /\ Returned /\ WellFormedPNGIco /\ DeclaredCount = 3
    /\ SlotArea(0) < SlotArea(2) /\ SlotArea(2) < SlotArea(1)
    /\ result.kind = "image" /\ Dx(result.rect) = 256 /\ Dy(result.rect) = 256

\* C3: at every point of the directory loop, and after it, the best entry is
\* the entry of maximal area among the surviving entries parsed so far, and
\* the earliest one among those of maximal area; it is nil iff none survived.
C3_FirstMaximalEntry ==
    LET S == {k \in 1..Len(parsed) : ~skipEntry(parsed[k], data)} IN
    /\ (S = {}) = (bestEntry = <<>>)
    /\ S # {} =>
         \E k \in S :
           /\ bestEntry = <<parsed[k]>>
           /\ bestResolution = SlotArea(k - 1)
           /\ \A j \in S : SlotArea(j - 1) <= SlotArea(k - 1)
           /\ \A j \in S : SlotArea(j - 1) = SlotArea(k - 1) => k <= j

\* witness: the maximal area is shared by two surviving entries of different
\* shape after a smaller one, and the earlier of the two is the best entry
C3_Witness ==
    /\ Returned /\ Len(parsed) = 3
    /\ \A k \in 1..3 : ~skipEntry(parsed[k], data)
    /\ SlotArea(0) < SlotArea(1) /\ SlotArea(1) = SlotArea(2)
    /\ parsed[2] # parsed[3] /\ parsed[2].Width # parsed[3].Width
    /\ bestEntry = <<parsed[2]>>

\* C4: an entry with offset 0, size 0 or offset+size beyond the buffer is
\* never selected and never fails the call by itself: with a valid header
\* and directory the call fails with the no-valid-entries error exactly when
\* every entry is such an entry, and otherwise the slice taken for the
\* selected entry is [offset, offset+size) of the buffer.
C4_FaultyEntriesSkipped ==
    /\ bestEntry # <<>> =>
         \E k \in SlotIds : ~FaultySlot(k) /\ bestEntry[1] = parseICOEntry(data, 6 + 16 * k)
    /\ (Returned /\ ValidDirectory) =>
         ((result.err = "no valid image entries found")
            = (\A k \in SlotIds : FaultySlot(k)))
    /\ result.err # "data[Offset:Offset+Size]"
    /\ pc \in {"image", "bmp", "rows"} =>
         \E k \in SlotIds : ~FaultySlot(k) /\ imageData = SlotPayload(k)

\* witness: a directory with an entry whose offset+size wraps in uint32, one
\* with offset 0 and a sound one, decoded to the sound entry's image
C4_Witness ==
    /\ Returned /\ ValidDirectory /\ DeclaredCount = 3
    /\ Slice(SlotBytes(0), 8, 12) = <<255, 255, 255, 255>>
    /\ Slice(SlotBytes(1), 12, 16) = <<0, 0, 0, 0>>
    /\ ~FaultySlot(2)
    /\ result.kind = "image"

\* witness: every entry of a valid directory is skipped and the call fails
\* with the no-valid-entries error
C4_WitnessNone ==
    /\ Returned /\ ValidDirectory /\ DeclaredCount = 2
    /\ \A k \in SlotIds : FaultySlot(k)
    /\ result.err = "no valid image entries found"

\* the header of the buffer is malformed: too short, reserved # 0, type # 1
\* or count = 0
MalformedHeader ==
    \/ Len(data) < 6
    \/ Slice(data, 0, 2) # <<0, 0>>
    \/ Slice(data, 2, 4) # <<1, 0>>
    \/ Slice(data, 4, 6) = <<0, 0>>

\* C5: decodeICO returns an error and no image for every buffer shorter than
\* 6 bytes and for every buffer whose header has a non-zero reserved field,
\* a type other than 1 or a count of 0, whatever follows the header; no
\* directory slot is read.
C5_MalformedHeaderRejected ==
    MalformedHeader =>
        /\ result.kind \in {"none", "error"}
        /\ pc \in {"ready", "done"}
        /\ parsed = <<>>
        /\ Returned => result.err \in {"too short for header",
                                       "reserved field must be 0",
                                       "type must be 1 for ICO",
                                       "no images in file"}

\* witness: a CUR header (type 2) in front of a complete, decodable
\* two-entry directory is rejected
C5_Witness ==
    /\ Returned /\ Len(data) > 38
    /\ Slice(data, 0, 6) = <<0, 0, 2, 0, 2, 0>>
    /\ result.kind = "error"

\* C6: with a valid header declaring N >= 1 entries and fewer than 6+16N
\* bytes, decodeICO fails with the truncated-directory error and has parsed
\* no directory slot.
C6_TruncatedDirectoryRejected ==
    (/\ Len(data) >= 6
     /\ ~MalformedHeader
     /\ Len(data) < 6 + 16 * SmallLE(Slice(data, 4, 6))) =>
        /\ parsed = <<>>
        /\ pc \in {"ready", "done"}
        /\ Returned => result = ReturnError("too short for directory entries")

\* witness: one byte short of a two-entry directory, one whole slot present
C6_Witness ==
    /\ Returned /\ Len(data) = 37
    /\ Slice(data, 0, 6) = <<0, 0, 1, 0, 2, 0>>
    /\ result.err = "too short for directory entries"

\* C7: a width or height byte of 0 counts as 256 and any other byte as
\* itself: the best entry's resolution is the product of the substituted
\* values, a surviving 0x0 entry makes the best resolution 65536, and the
\* DIB decoder uses the substituted values where the DIB header's width or
\* halved height is 0.
C7_ZeroMeans256 ==
    /\ bestEntry # <<>> =>
         bestResolution = ActualDim(bestEntry[1].Width) * ActualDim(bestEntry[1].Height)
    /\ (pc # "ready" /\ pc # "loop"
        /\ \E k \in 1..Len(parsed) :
             /\ ~skipEntry(parsed[k], data)
             /\ parsed[k].Width = 0 /\ parsed[k].Height = 0) =>
         (bestResolution = 65536 /\ bestEntry[1].Width = 0 /\ bestEntry[1].Height = 0)
    /\ pc = "rows" =>
         /\ Slice(imageData, 4, 8) = <<0, 0, 0, 0>> =>
              bmp.width = ActualDim(bestEntry[1].Width)
         /\ Slice(imageData, 8, 12) \in {<<0, 0, 0, 0>>, <<1, 0, 0, 0>>,
                                         <<255, 255, 255, 255>>} =>
              bmp.height = ActualDim(bestEntry[1].Height)

\* witness: a DIB with zero header dimensions under a 0x0 directory entry is
\* decoded as 256x256
C7_Witness ==
    /\ Returned /\ result.kind = "image"
    /\ bestEntry # <<>> /\ bestEntry[1].Width = 0 /\ bestEntry[1].Height = 0
    /\ ~HasPrefix(imageData, <<137, 80>>)
    /\ Slice(imageData, 4, 8) = <<0, 0, 0, 0>>
    /\ Slice(imageData, 8, 12) = <<0, 0, 0, 0>>
    /\ result.rect = [minX |-> 0, minY |-> 0, maxX |-> 256, maxY |-> 256]

\* witness: a 0x0 entry wins over an earlier 255x255 entry
C7_WitnessBeats ==
    /\ Returned /\ Len(parsed) >= 2
    /\ parsed[1].Width = 255 /\ parsed[1].Height = 255
    /\ ~skipEntry(parsed[1], data)
    /\ bestEntry # <<>> /\ bestEntry[1].Width = 0 /\ bestResolution = 65536

Formats == {"Unknown", "PNG", "JPEG", "WebP", "BMP", "ICO"}

C8_WitnessEmpty == Len(formats) >= 2 /\ data = <<>>

\* the buffer starts with the full magic sequence of the format
HasMagic(f) ==
    CASE f = "PNG" -> HasPrefix(data, <<137, 80, 78, 71, 13, 10, 26, 10>>)
      [] f = "JPEG" -> HasPrefix(data, <<255, 216, 255>>)
      [] f = "BMP" -> HasPrefix(data, <<66, 77>>)
      [] f = "ICO" -> HasPrefix(data, <<0, 0, 1, 0>>)
      [] f = "WebP" -> /\ HasPrefix(data, <<82, 73, 70, 70>>)
                       /\ Len(data) >= 12
                       /\ Slice(data, 8, 12) = <<87, 69, 66, 80>>
      [] OTHER -> FALSE

\* C9: a buffer that begins with a format's magic sequence is detected as
\* that format, whatever bytes follow (and whatever the RIFF size field is).
C9_MagicSufficient ==
    \A k \in 1..Len(formats) :
        \A f \in Formats : HasMagic(f) => formats[k] = f

\* witness: WebP detected with a size field of 2^32-1 and trailing bytes
C9_Witness ==
    /\ Len(formats) >= 1 /\ formats[1] = "WebP"
    /\ Len(data) > 12 /\ Slice(data, 4, 8) = <<255, 255, 255, 255>>

\* C10: detectFormat returns a format only when its full magic sequence is
\* present, and Unknown for every buffer that has none: short buffers,
\* proper prefixes of a magic, RIFF buffers without the WEBP tag.
C10_UnknownWithoutMagic ==
    \A k \in 1..Len(formats) :
        /\ formats[k] # "Unknown" => HasMagic(formats[k])
        /\ (\A f \in Formats : ~HasMagic(f)) => formats[k] = "Unknown"

\* witness: a 14-byte RIFF buffer whose bytes 8..11 are not WEBP is Unknown
C10_Witness ==
    /\ Len(formats) >= 1 /\ formats[1] = "Unknown"
    /\ Len(data) = 14 /\ Slice(data, 0, 4) = <<82, 73, 70, 70>>

\* witness: the first 7 bytes of the PNG signature are Unknown
C10_WitnessPrefix ==
    /\ Len(formats) >= 1 /\ formats[1] = "Unknown"
    /\ data = <<137, 80, 78, 71, 13, 10, 26>>

\* the magic test of a format
MagicTest(f, d) ==
    CASE f = "PNG" -> isPNG(d)
      [] f = "JPEG" -> isJPEG(d)
      [] f = "WebP" -> isWebP(d)
      [] f = "ICO" -> isICO(d)
      [] f = "BMP" -> isBMP(d)

\* the format returned when the magic tests are evaluated in the given order
RECURSIVE FirstMatch(_, _)
FirstMatch(order, d) ==
    IF Len(d) < 2 \/ order = <<>> THEN "Unknown"
    ELSE IF MagicTest(Head(order), d) THEN Head(order)
    ELSE FirstMatch(Tail(order), d)

MagicFormats == {"PNG", "JPEG", "WebP", "ICO", "BMP"}

\* the order in which detectFormat evaluates its tests
CodeOrder == <<"PNG", "JPEG", "WebP", "ICO", "BMP">>

\* every order of the five tests
TestOrders == {[k \in 1..5 |-> CodeOrder[p[k]]] : p \in Permutations(1..5)}

\* C11: no buffer satisfies more than one of the five magic tests, and
\* evaluating the tests in any order (BMP before ICO included) returns the
\* format detectFormat returned.
C11_TestsExclusive ==
    pc = "ready" =>
        /\ \A f, g \in MagicFormats :
             (MagicTest(f, data) /\ MagicTest(g, data)) => f = g
        /\ \A k \in 1..Len(formats) :
             \A o \in TestOrders : FirstMatch(o, data) = formats[k]

\* witness: a call was made on a buffer that starts with "BM" and carries
\* the WEBP tag at offset 8, and it was detected as BMP
C11_Witness ==
    /\ pc = "ready" /\ Len(formats) >= 1 /\ formats[1] = "BMP"
    /\ Len(data) >= 12
    /\ Slice(data, 0, 2) = <<66, 77>>
    /\ Slice(data, 8, 12) = <<87, 69, 66, 80>>

\* the path p of the reference "file://" + p
RefPath == SubSeq(fileURL, Len(Scheme) + 1, Len(fileURL))

IsAbsolute(q) == q # <<>> /\ q[1] = "/"

IsRelative(q) == q # <<>> /\ q[1] # "/"

\* the resolveFilePath call has returned
Resolved == pc = "path" /\ resolved.kind # "none"

\* C12: for a non-empty relative p and a non-empty base b the call succeeds
\* with filepath.Join(b, p), the cleaned b + "/" + p; for a p that starts
\* with "/" it succeeds with p unchanged, whatever the base.
C12_JoinOrUnchanged ==
    Resolved =>
        /\ (IsRelative(RefPath) /\ basePath # <<>>) =>
             /\ resolved.kind = "path"
             /\ resolved.path = Clean(basePath \o <<"/">> \o RefPath)
        /\ IsAbsolute(RefPath) =>
             /\ resolved.kind = "path"
             /\ resolved.path = RefPath

\* witness: an absolute path that is not clean came back unchanged from a
\* call with a non-empty base
C12_Witness ==
    /\ Resolved
    /\ IsAbsolute(RefPath) /\ basePath # <<>>
    /\ Clean(RefPath) # RefPath
    /\ resolved.path = RefPath

\* witness: a relative path was joined to a non-empty base
C12_WitnessRelative ==
    /\ Resolved
    /\ IsRelative(RefPath) /\ basePath = <<"/", "b", "/", "c">>
    /\ RefPath = <<"a", "/", "a">>
    /\ resolved.path = <<"/", "b", "/", "c", "/", "a", "/", "a">>

\* C13: a non-empty relative p with the empty base returns the error
\* "relative path requires base path" and the empty path; an absolute p
\* with the empty base is not an error.
C13_BasePathRequired ==
    Resolved =>
        /\ (IsRelative(RefPath) /\ basePath = <<>>) =>
             /\ resolved.kind = "error"
             /\ resolved.err = "relative path requires base path"
             /\ resolved.path = <<>>
        /\ (IsAbsolute(RefPath) /\ basePath = <<>>) => resolved.kind = "path"

\* witness: a relative path was refused for want of a base
C13_Witness ==
    /\ Resolved
    /\ IsRelative(RefPath) /\ basePath = <<>>
    /\ resolved.kind = "error"

\* witness: an absolute path was resolved with the empty base
C13_WitnessAbsolute ==
    /\ Resolved
    /\ IsAbsolute(RefPath) /\ basePath = <<>>
    /\ resolved.kind = "path"

\* s ends with the elements t
EndsWith(s, t) ==
    Len(s) >= Len(t) /\ SubSeq(s, Len(s) - Len(t) + 1, Len(s)) = t

DotFree(elems) == \A k \in 1..Len(elems) : elems[k] \notin {Dot, DotDot}

DIBCalled ==
    /\ pc = "done"
    /\ Len(imageData) >= 4
    /\ Slice(imageData, 0, 4) # <<137, 80, 78, 71>>

\* the signed 32-bit number held little-endian in four bytes
SignedLE(b) ==
    b[1] + 256 * b[2] + 65536 * b[3]
      + 16777216 * (IF b[4] >= 128 THEN b[4] - 256 ELSE b[4])

\* the BITMAPINFOHEADER fields of imageData, read from its bytes
DIBHeaderSize == Slice(imageData, 0, 4)

DIBHeaderSizeOK == ~IsSmallLE(DIBHeaderSize) \/ SmallLE(DIBHeaderSize) >= 40

DIBBitCount == SmallLE(Slice(imageData, 14, 16))

DIBCompressionZero == Slice(imageData, 16, 20) = <<0, 0, 0, 0>>

Depths == {1, 4, 8, 24, 32}

\* width and height of the output: the header's, the height halved toward
\* zero, with the directory entry's dimensions in place of a zero
DIBWidth ==
    LET w0 == SignedLE(Slice(imageData, 4, 8))
    IN IF w0 = 0 THEN ActualDim(bestEntry[1].Width) ELSE w0

DIBHeight ==
    LET h0 == SignedLE(Slice(imageData, 8, 12))
        half == IF h0 >= 0 THEN h0 \div 2 ELSE -((-h0) \div 2)
    IN IF half = 0 THEN ActualDim(bestEntry[1].Height) ELSE half

\* palette entries of an indexed DIB
DIBPaletteCount ==
    LET cc == bestEntry[1].ColorCount
        full == 2 ^ DIBBitCount
    IN IF cc # 0 /\ cc < full THEN cc ELSE full

DIBPaletteBytes == IF DIBBitCount <= 8 THEN 4 * DIBPaletteCount ELSE 0

DIBPaletteFits ==
    DIBBitCount <= 8 =>
        /\ IsSmallLE(DIBHeaderSize)
        /\ SmallLE(DIBHeaderSize) + DIBPaletteBytes <= Len(imageData)

\* a DIB whose header decodeICOBMP accepts and whose palette is present
DIBAcceptable ==
    /\ Len(imageData) >= 40
    /\ DIBHeaderSizeOK
    /\ DIBBitCount \in Depths
    /\ DIBCompressionZero
    /\ DIBPaletteFits

\* stored rows are padded to four bytes; a row holds RowBytes pixel bytes
Stride == ((DIBWidth * DIBBitCount + 31) \div 32) * 4

RowBytes == (DIBWidth * DIBBitCount + 7) \div 8

\* bytes of imageData after the header and the palette
DIBPixelBytes == Len(imageData) - (SmallLE(DIBHeaderSize) + DIBPaletteBytes)

\* C15: an acceptable DIB never fails for short or absent pixel data: an
\* image is returned, and no pixel is written in a row whose bytes reach
\* past the end of the buffer.
C15_ShortPixelsTolerated ==
    (DIBCalled /\ DIBAcceptable) =>
        /\ result.kind = "image"
        /\ \A q \in DOMAIN pix :
             (DIBHeight - 1 - q[2]) * Stride + RowBytes <= DIBPixelBytes

\* the pixel data holds k whole stored rows, 0 < k < height, and not the
\* pixel bytes of the stored row that follows them
TailMissing ==
    /\ DIBCalled /\ DIBAcceptable
    /\ IsSmallLE(DIBHeaderSize)
    /\ DIBWidth > 0 /\ DIBHeight > 0
    /\ DIBPixelBytes >= Stride
    /\ DIBPixelBytes < DIBHeight * Stride
    /\ DIBPixelBytes < (DIBPixelBytes \div Stride) * Stride + RowBytes

\* C16: when the first k stored rows are whole and the later ones are cut
\* off, 0 < k < height, the k whole rows are decoded into the output (every
\* pixel of them whose colour the palette holds is written).
C16_PartialRender ==
    (TailMissing /\ (DIBBitCount >= 24 \/ bestEntry[1].ColorCount = 0))
    => /\ result.kind = "image"
       /\ \A r \in 0..((DIBPixelBytes \div Stride) - 1) :
            \A x \in 0..(DIBWidth - 1) :
                <<x, DIBHeight - 1 - r>> \in DOMAIN pix

\* C17: a bit depth outside {1, 4, 8, 24, 32} is refused with the
\* unsupported-bit-depth error whenever the header size is at least 40 and
\* the compression is 0, for every buffer of at least 40 bytes.
C17_UnsupportedDepth ==
    (/\ DIBCalled /\ Len(imageData) >= 40
     /\ DIBHeaderSizeOK /\ DIBCompressionZero
     /\ DIBBitCount \notin Depths)
    => /\ result.kind = "error"
       /\ result.err = "ICO BMP: unsupported bit depth"

\* C18: a header size below 40 or a non-zero compression is refused with an
\* error and no image, whatever the width, height and bit depth, for every
\* buffer of at least 40 bytes.
C18_HeaderRejected ==
    (DIBCalled /\ Len(imageData) >= 40) =>
        /\ ~DIBHeaderSizeOK =>
             /\ result.kind = "error"
             /\ result.err = "ICO BMP: unsupported header size"
             /\ result.rect = NoRect
        /\ (DIBHeaderSizeOK /\ ~DIBCompressionZero) =>
             /\ result.kind = "error"
             /\ result.err = "ICO BMP: compressed BMP not supported"
             /\ result.rect = NoRect

\* witness: a header size of 39 was refused
C18_Witness ==
    /\ DIBCalled /\ Len(imageData) >= 40
    /\ DIBHeaderSize = <<39, 0, 0, 0>>
    /\ DIBCompressionZero /\ DIBBitCount = 32
    /\ result.kind = "error"

\* witness: a compressed DIB of a supported depth was refused
C18_WitnessCompression ==
    /\ DIBCalled /\ Len(imageData) >= 40
    /\ DIBHeaderSizeOK /\ ~DIBCompressionZero /\ DIBBitCount = 32
    /\ result.kind = "error"

\* C19: an indexed DIB (bit depth <= 8) has a palette of 2^bitCount
\* entries, or of the entry's ColorCount when that is non-zero and smaller;
\* it is the 4n bytes at headerSize and the pixel data follows it; the
\* truncated-palette error is returned exactly when the buffer is shorter
\* than headerSize + 4n.  A deeper DIB has no palette and its pixel data
\* starts at headerSize.
C19_Palette ==
    /\ (/\ DIBCalled /\ Len(imageData) >= 40
        /\ DIBHeaderSizeOK /\ DIBCompressionZero)
       => ((result.kind = "error" /\ result.err = "ICO BMP: too short for palette")
             <=> (DIBBitCount <= 8 /\ ~DIBPaletteFits))
    /\ bmp # NoBMP =>
         LET hs == SmallLE(DIBHeaderSize) IN
         /\ IsSmallLE(DIBHeaderSize)
         /\ bmp.pixelOffset = hs + DIBPaletteBytes
         /\ bmp.palette = Slice(imageData, hs, hs + DIBPaletteBytes)
         /\ bmp.pixels = Slice(imageData, hs + DIBPaletteBytes, Len(imageData))

\* witness: a 4-bit DIB of an entry with ColorCount 2 was decoded with a
\* palette of two entries
C19_Witness ==
    /\ DIBCalled /\ result.kind = "image"
    /\ DIBBitCount = 4 /\ bestEntry[1].ColorCount = 2
    /\ Len(bmp.palette) = 8
    /\ pix # <<>>

\* witness: an indexed DIB one byte short of its palette was refused
C19_WitnessShort ==
    /\ DIBCalled /\ Len(imageData) >= 40
    /\ DIBBitCount = 8
    /\ IsSmallLE(DIBHeaderSize)
    /\ Len(imageData) = SmallLE(DIBHeaderSize) + DIBPaletteBytes - 1
    /\ result.err = "ICO BMP: too short for palette"

\* C20: every image decodeICOBMP returns has origin (0, 0) and size w x h,
\* w the header width or the entry's actual width for 0, h the header
\* height halved or the entry's actual height for a quotient of 0, for
\* every signed header width and height.
C20_OriginAndSize ==
    (DIBCalled /\ result.kind = "image") =>
        /\ result.rect.minX = 0 /\ result.rect.minY = 0
        /\ result.rect.maxX - result.rect.minX = DIBWidth
        /\ result.rect.maxY - result.rect.minY = DIBHeight

\* what image.Rect makes of the dimensions: the bounds 0..w by 0..h put in
\* order, so a negative w or h gives the span w..0 or h..0
CanonicalBounds ==
    (DIBCalled /\ result.kind = "image") =>
        LET w == DIBWidth
            h == DIBHeight
        IN /\ w # 0 /\ h # 0
           /\ result.rect.minX = (IF w < 0 THEN w ELSE 0)
           /\ result.rect.maxX = (IF w < 0 THEN 0 ELSE w)
           /\ result.rect.minY = (IF h < 0 THEN h ELSE 0)
           /\ result.rect.maxY = (IF h < 0 THEN 0 ELSE h)

\* an image came back for a header width of -1 and a header height of -3
NegativeDimensions ==
    /\ DIBCalled /\ result.kind = "image"
    /\ DIBWidth = -1 /\ DIBHeight = -1
    /\ SignedLE(Slice(imageData, 8, 12)) = -3

\* an image came back with the entry's dimensions, 256 for 0
FallbackDimensions ==
    /\ DIBCalled /\ result.kind = "image"
    /\ SignedLE(Slice(imageData, 4, 8)) = 0
    /\ bestEntry[1].Width = 0
    /\ result.rect.maxX = 256

\* decodeICOImage was called on imageData and has returned or handed over
ImageDispatched == pc \in {"bmp", "rows", "done"} /\ imageData # <<>>

PNGSignature == <<137, 80, 78, 71, 13, 10, 26, 10>>

StartsWithPNG == Len(imageData) >= 8 /\ SubSeq(imageData, 1, 8) = PNGSignature

\* C21: a slice shorter than 4 bytes is refused with the too-short error;
\* otherwise a slice that starts with the 8-byte PNG signature goes to the
\* PNG decoder only (an image, or the wrapped error, never a panic and never
\* the DIB decoder); every other slice goes to the DIB decoder.
C21_Dispatch ==
    ImageDispatched =>
        /\ Len(imageData) < 4 =>
             /\ pc = "done" /\ bmp = NoBMP
             /\ result.kind = "error"
             /\ result.err = "ICO image data: too short"
        /\ (Len(imageData) >= 4 /\ StartsWithPNG) =>
             /\ pc = "done" /\ bmp = NoBMP /\ pix = <<>>
             /\ result.kind \in {"image", "error"}
             /\ result.kind = "error" => result.err = "failed to decode PNG in ICO"
        /\ (Len(imageData) >= 4 /\ ~StartsWithPNG) =>
             /\ result.err \notin {"ICO image data: too short",
                                   "failed to decode PNG in ICO"}
             /\ pc = "done" =>
                  \/ result.kind \in {"image", "panic"}
                  \/ result.err \in {"ICO BMP data: too short for header",
                                     "ICO BMP: unsupported header size",
                                     "ICO BMP: compressed BMP not supported",
                                     "ICO BMP: too short for palette",
                                     "ICO BMP: unsupported bit depth"}

\* witness: a slice with the PNG signature that does not decode came back
\* with the wrapped PNG error
C21_Witness ==
    /\ ImageDispatched /\ pc = "done"
    /\ StartsWithPNG
    /\ result.kind = "error" /\ result.err = "failed to decode PNG in ICO"

\* witness: a slice of 3 bytes was refused
C21_WitnessShort ==
    /\ ImageDispatched /\ Len(imageData) = 3
    /\ result.err = "ICO image data: too short"

\* witness: a slice holding 7 bytes of the PNG signature went to the DIB decoder
C21_WitnessDIB ==
    /\ ImageDispatched /\ Len(imageData) = 7
    /\ SubSeq(imageData, 1, 7) = SubSeq(PNGSignature, 1, 7)
    /\ result.err = "ICO BMP data: too short for header"

\* palette and pixel data of an acceptable DIB, as slices of imageData
DIBPalette ==
    Slice(imageData, SmallLE(DIBHeaderSize),
          SmallLE(DIBHeaderSize) + DIBPaletteBytes)

DIBPixels ==
    Slice(imageData, SmallLE(DIBHeaderSize) + DIBPaletteBytes, Len(imageData))

\* decodeICOBMP returned an image
DIBImage == DIBCalled /\ result.kind = "image"

\* every stored row of the DIB is present and every palette index is valid
WholeDIB ==
    /\ DIBImage
    /\ DIBWidth > 0 /\ DIBHeight > 0
    /\ DIBPixelBytes >= DIBHeight * Stride
    /\ DIBBitCount >= 24 \/ bestEntry[1].ColorCount = 0

\* C22: rows are read bottom-up with the depth's 4-byte-padded stride:
\* output row y holds the pixels of the stored row at byte offset
\* (h - 1 - y) * stride of the pixel data, and a DIB with all its rows
\* present has every output row filled.
C22_BottomUpRows ==
    DIBImage =>
        /\ \A q \in DOMAIN pix :
             /\ (DIBHeight - 1 - q[2]) * Stride + RowBytes <= DIBPixelBytes
             /\ pix[q] = pixelOf(DIBBitCount, DIBPixels, DIBPalette,
                                 (DIBHeight - 1 - q[2]) * Stride, q[1])
        /\ WholeDIB =>
             DOMAIN pix = (0..(DIBWidth - 1)) \X (0..(DIBHeight - 1))

\* witness: an 8-bit DIB of 9 x 2 pixels (stride 12) was decoded whole, and
\* its two rows differ
C22_Witness ==
    /\ WholeDIB
    /\ DIBBitCount = 8 /\ DIBWidth = 9 /\ DIBHeight = 2
    /\ \E x \in 0..8 : pix[<<x, 0>>] # pix[<<x, 1>>]

\* the stored row that output row yy is read from, as bytes
StoredRow(yy) ==
    SubSeq(DIBPixels, (DIBHeight - 1 - yy) * Stride + 1,
           (DIBHeight - 1 - yy) * Stride + RowBytes)

\* palette index of pixel x of a stored row, for the indexed depths
ExpectedIndex(row, x) ==
    CASE DIBBitCount = 1 -> (row[(x \div 8) + 1] \div 2 ^ (7 - (x % 8))) % 2
      [] DIBBitCount = 4 -> IF x % 2 = 0 THEN row[(x \div 2) + 1] \div 16
                                         ELSE row[(x \div 2) + 1] % 16
      [] DIBBitCount = 8 -> row[x + 1]

\* colour <<R, G, B, A>> of pixel x of a stored row
ExpectedColour(row, x) ==
    IF DIBBitCount = 24
       THEN <<row[3 * x + 3], row[3 * x + 2], row[3 * x + 1], 255>>
    ELSE IF DIBBitCount = 32
       THEN <<row[4 * x + 3], row[4 * x + 2], row[4 * x + 1], row[4 * x + 4]>>
    ELSE LET idx == ExpectedIndex(row, x)
         IN <<DIBPalette[4 * idx + 3], DIBPalette[4 * idx + 2],
              DIBPalette[4 * idx + 1], 255>>

\* C23: pixel x of a decoded row is, for 1 bit, bit 7 - x mod 8 of byte
\* x div 8 as palette index; for 4 bits the high nibble of byte x div 2 for
\* even x and the low nibble for odd x; for 8 bits byte x; for 24 bits bytes
\* 3x..3x+2 as B, G, R with alpha 255; for 32 bits bytes 4x..4x+3 as B, G,
\* R, A; palette index idx gives R, G, B from palette bytes 4idx+2, 4idx+1, 4idx.
C23_PixelExtraction ==
    DIBImage =>
        \A q \in DOMAIN pix :
            /\ Len(StoredRow(q[2])) = RowBytes
            /\ DIBBitCount <= 8 =>
                 4 * ExpectedIndex(StoredRow(q[2]), q[1]) + 3 <= Len(DIBPalette)
            /\ pix[q] = ExpectedColour(StoredRow(q[2]), q[1])

\* witness: a 1-bit row of 9 pixels was decoded with both palette colours,
\* pixel 8 coming from the top bit of the second byte
C23_Witness ==
    /\ DIBImage /\ DIBBitCount = 1 /\ DIBWidth = 9
    /\ <<8, 0>> \in DOMAIN pix
    /\ \E x \in 0..7 : <<x, 0>> \in DOMAIN pix /\ pix[<<x, 0>>] # pix[<<8, 0>>]

\* witness: a 4-bit row was decoded whose first two pixels, the nibbles of
\* one byte, differ
C23_WitnessNibbles ==
    /\ DIBImage /\ DIBBitCount = 4 /\ DIBWidth >= 2
    /\ <<0, 0>> \in DOMAIN pix /\ <<1, 0>> \in DOMAIN pix
    /\ pix[<<0, 0>>] # pix[<<1, 0>>]

\* witness: a 32-bit pixel was decoded with an alpha other than 255
C23_WitnessAlpha ==
    /\ DIBImage /\ DIBBitCount = 32
    /\ \E q \in DOMAIN pix : pix[q][4] # 255

\* an indexed DIB was decoded; its output rows 0..y-1 went through the
\* pixel loop, the others were skipped for truncation
IndexedImage == DIBImage /\ DIBBitCount <= 8 /\ DIBWidth > 0

\* C24: for the indexed depths every pixel of every decoded row has alpha
\* 255, also when the entry's ColorCount reduces the palette.
C24_AlwaysOpaque ==
    IndexedImage =>
        \A yy \in 0..(y - 1) : \A x \in 0..(DIBWidth - 1) :
            /\ <<x, yy>> \in DOMAIN pix
            /\ pix[<<x, yy>>][4] = 255

\* C24 amended: in a decoded row a pixel whose index is below the number
\* of palette entries is written with alpha 255, whatever the fourth byte
\* of its palette entry; a pixel whose index is not below it is not written.
C24_OpaqueWhenInPalette ==
    IndexedImage =>
        \A yy \in 0..(y - 1) : \A x \in 0..(DIBWidth - 1) :
            IF ExpectedIndex(StoredRow(yy), x) < DIBPaletteCount
               THEN /\ <<x, yy>> \in DOMAIN pix
                    /\ pix[<<x, yy>>][4] = 255
               ELSE <<x, yy>> \notin DOMAIN pix

\* witness: a 4-bit DIB with a palette of two entries was decoded; one
\* pixel of its row is written from an entry whose fourth byte is not 255,
\* another has an index outside the palette and is not written
C24_Witness ==
    /\ IndexedImage /\ DIBBitCount = 4 /\ DIBPaletteCount = 2 /\ y >= 1
    /\ \E x \in 0..(DIBWidth - 1) :
         /\ <<x, 0>> \in DOMAIN pix
         /\ DIBPalette[4 * ExpectedIndex(StoredRow(0), x) + 4] # 255
    /\ \E x \in 0..(DIBWidth - 1) : <<x, 0>> \notin DOMAIN pix

\* stored row r of the DIB was decoded: its output row h - 1 - r is written
RowDecoded(r) == <<0, DIBHeight - 1 - r>> \in DOMAIN pix

\* C25: at every depth the stored row r, bytes r * stride up to
\* (r + 1) * stride of the pixel data, is decoded exactly when
\* (r + 1) * stride does not exceed the length of the pixel data.
C25_PaddedStrideTest ==
    (/\ DIBImage /\ DIBWidth > 0 /\ DIBHeight > 0
     /\ DIBBitCount >= 24 \/ bestEntry[1].ColorCount = 0)
    => \A r \in 0..(DIBHeight - 1) :
         RowDecoded(r) <=> ((r + 1) * Stride <= DIBPixelBytes)

\* an 8-bit or 24-bit row was decoded although its padding bytes are missing
UnpaddedRowDecoded ==
    /\ DIBImage /\ DIBWidth > 0 /\ DIBHeight = 1
    /\ DIBBitCount \in {8, 24}
    /\ DIBPixelBytes < Stride
    /\ RowDecoded(0)

\* a whole stored row was not decoded because a later stored row is cut
WholeRowSkipped ==
    /\ DIBImage /\ DIBWidth > 0 /\ DIBHeight = 2
    /\ DIBBitCount = 32
    /\ DIBPixelBytes >= Stride
    /\ ~RowDecoded(0)

\* the slots that survive validation, by the directory fields alone
SoundSlots == {k \in SlotIds : ~FaultySlot(k)}

\* the earliest slot of maximal declared area among the sound slots
SelectedSlot ==
    CHOOSE k \in SoundSlots :
        /\ \A j \in SoundSlots : SlotArea(j) <= SlotArea(k)
        /\ \A j \in SoundSlots : SlotArea(j) = SlotArea(k) => k <= j

\* a payload that decodeICOImage would turn into an image by the PNG decoder
DecodablePNG(payload) ==
    /\ Len(payload) >= 32
    /\ SubSeq(payload, 1, 8) = PNGSignature
    /\ SubSeq(payload, Len(payload) - 7, Len(payload)) = <<73, 69, 78, 68, 174, 66, 96, 130>>

\* C26: only the selected entry is decoded.  The slice decoded is the
\* payload of the slot the directory fields select, whatever the payloads
\* hold, and when it fails to decode the call returns that error, also
\* when another entry holds a decodable image.
C26_OnlySelectedEntry ==
    (Returned /\ ValidDirectory /\ SoundSlots # {}) =>
        /\ imageData = SlotPayload(SelectedSlot)
        /\ bestEntry = <<parseICOEntry(data, 6 + 16 * SelectedSlot)>>
        /\ (Len(imageData) >= 8 /\ SubSeq(imageData, 1, 8) = PNGSignature) =>
             IF DecodablePNG(imageData)
                THEN result.kind = "image"
                ELSE /\ result.kind = "error"
                     /\ result.err = "failed to decode PNG in ICO"

\* witness: the largest entry holds a PNG that does not decode, a smaller
\* entry holds one that does, and the call returned the PNG error
C26_Witness ==
    /\ Returned /\ ValidDirectory /\ DeclaredCount >= 2
    /\ SoundSlots # {}
    /\ ~DecodablePNG(SlotPayload(SelectedSlot))
    /\ \E k \in SoundSlots :
         /\ SlotArea(k) < SlotArea(SelectedSlot)
         /\ DecodablePNG(SlotPayload(k))
    /\ result.kind = "error"
    /\ result.err = "failed to decode PNG in ICO"

\* decodeICO accepted the header of the buffer
PastHeader ==
    \/ pc \in {"loop", "image", "bmp", "rows"}
    \/ /\ pc = "done"
       /\ result.err \notin {"too short for header", "reserved field must be 0",
                             "type must be 1 for ICO", "no images in file",
                             "too short for directory entries"}

\* the buffer starts with reserved = 0 and type = 1
ICOPrefix == Len(data) >= 4 /\ SubSeq(data, 1, 4) = <<0, 0, 1, 0>>

\* the buffer starts with reserved = 0 and type = 2
CURPrefix == Len(data) >= 4 /\ SubSeq(data, 1, 4) = <<0, 0, 2, 0>>

\* C27: detectFormat returns ICO exactly for the buffers of at least 4
\* bytes with reserved = 0 and type = 1; every buffer whose header decodeICO
\* accepts, and so every buffer it decodes, is one of them; a CUR buffer
\* (type 2) is Unknown to detectFormat and refused by decodeICO.
C27_DetectorAgreesWithParser ==
    /\ \A k \in 1..Len(formats) : (formats[k] = "ICO") <=> ICOPrefix
    /\ PastHeader => ICOPrefix
    /\ result.kind = "image" => ICOPrefix
    /\ CURPrefix =>
         /\ \A k \in 1..Len(formats) : formats[k] = "Unknown"
         /\ ~PastHeader
         /\ Returned => result.kind = "error"

\* witness: a buffer detectFormat classified as ICO was decoded to an image
C27_Witness ==
    /\ Len(formats) >= 1 /\ formats[1] = "ICO"
    /\ Returned /\ result.kind = "image"

\* witness: a CUR buffer with a whole directory was Unknown to detectFormat
\* and refused by decodeICO for its type
C27_WitnessCUR ==
    /\ CURPrefix /\ Len(data) >= 22
    /\ Len(formats) >= 1 /\ formats[1] = "Unknown"
    /\ Returned /\ result.err = "type must be 1 for ICO"

\* C28: no step of detectFormat or decodeICO changes the caller's buffer,
\* whether the call succeeds or fails, and a write of the caller to its
\* buffer after the call changes neither the pixels nor the bounds of the
\* image decodeICOBMP returned.
C28_InputUntouched ==
    [][/\ pc # "done" => (buffer = data /\ buffer' = buffer)
       /\ pc = "done" => (pix' = pix /\ result' = result)]_vars

\* witness: the caller overwrote a byte of the buffer that a pixel of the
\* returned image was decoded from
C28_Witness ==
    /\ pc = "written"
    /\ buffer # data
    /\ pix # <<>>
    /\ PixelsOver(buffer) # PixelsOver(data)

\* what a registry m answers to IsInstalled(id) and to GetInstalledApp(id)
AnswerInstalled(m, id) == id \in DOMAIN m

AnswerApp(m, id) == IF id \in DOMAIN m THEN m[id] ELSE "nil"

\* goroutine t takes the step from position a to position b
Moves(t, a, b) == threads[t].pc = a /\ threads'[t].pc = b

\* C29: under every interleaving of the accessors, a call of IsInstalled(id)
\* returns true exactly when the latest completed Mark* call for id was
\* MarkInstalled, a call of GetInstalledApp(id) returns the config given to
\* that MarkInstalled call and nil otherwise, and a Mark* call for one id
\* leaves the answers for every other id as they were.
C29_AtomicCalls ==
    [][\A t \in Threads :
        /\ Moves(t, "return", "idle") /\ threads[t].op = "IsInstalled"
              => threads'[t].ret = AnswerInstalled(completed, threads[t].id)
        /\ Moves(t, "return", "idle") /\ threads[t].op = "GetInstalledApp"
              => threads'[t].ret = AnswerApp(completed, threads[t].id)
        /\ threads[t].op \in Writers /\ threads[t].pc # "idle"
                                      /\ threads'[t] # threads[t]
              => \A c \in ContainerIDs \ {threads[t].id} :
                    /\ AnswerApp(installed', c) = AnswerApp(installed, c)
                    /\ AnswerInstalled(installed', c) = AnswerInstalled(installed, c)
                    /\ AnswerApp(completed', c) = AnswerApp(completed, c)]_vars

\* witness: GetInstalledApp is about to return the config of a completed
\* MarkInstalled call while a MarkUninstalled call for the same id waits for
\* the mutex
C29_Witness ==
    \E t, u \in Threads :
        /\ t # u
        /\ threads[t].pc = "return"
        /\ threads[t].op = "GetInstalledApp"
        /\ threads[t].ret \in Configs
        /\ threads[u].pc = "acquire"
        /\ threads[u].op = "MarkUninstalled"
        /\ threads[u].id = threads[t].id

\* witness: IsInstalled returned false for an id whose latest completed
\* Mark* call was MarkUninstalled, with another id registered
C29_WitnessUninstalled ==
    \E t, u \in Threads :
        /\ t # u
        /\ threads[t].pc = "idle"
        /\ threads[t].op = "IsInstalled"
        /\ threads[t].ret = FALSE
        /\ threads[u].pc = "idle"
        /\ threads[u].op = "MarkUninstalled"
        /\ threads[u].id = threads[t].id
        /\ DOMAIN completed = ContainerIDs \ {threads[t].id}

\* C30: the map GetAllInstalled returns holds exactly the pairs registered
\* when the call returns; a step of another goroutine, a Mark* call
\* included, changes no map a goroutine was given; and only the map write of
\* a Mark* call changes the registry, so a write to a returned map does not.
C30_Snapshot ==
    [][/\ \A t \in Threads :
            /\ Moves(t, "return", "idle") /\ threads[t].op = "GetAllInstalled"
                  => View(t)' = completed /\ completed' = completed
            /\ threads[t].held.has /\ threads'[t] = threads[t]
                  => View(t)' = View(t)
       /\ installed' # installed
            => \E u \in Threads :
                  /\ Moves(u, "body", "return")
                  /\ threads[u].op \in Writers]_vars

\* witness: a goroutine holds a returned map with a pair in it, and the
\* registry has changed since: the map and the registry differ
C30_Witness ==
    \E t \in Threads :
        /\ threads[t].pc = "idle"
        /\ threads[t].op = "GetAllInstalled"
        /\ threads[t].held.has
        /\ DOMAIN View(t) # {}
        /\ installed = completed
        /\ DOMAIN completed # {}
        /\ View(t) # completed

\* witness: a returned map holds two pairs
C30_WitnessTwoPairs ==
    \E t \in Threads :
        /\ threads[t].pc = "idle"
        /\ threads[t].op = "GetAllInstalled"
        /\ DOMAIN View(t) = ContainerIDs
        /\ View(t) = completed

====
